---- MODULE Spec2Model ----
(***************************************************************************)
(* Model of the code-analysis pipeline of SoftBank-BE                      *)
(* (src/code-analyze/code-analysis.py) and of the request validation of    *)
(* the other entry points.                                                 *)
(*                                                                         *)
(* Paths are TLA+ strings, handled with the string operators the Python    *)
(* code uses (startswith, endswith, split, count, basename, dirname).      *)
(* File contents are sequences of characters; a character is a string      *)
(* naming it, with its UTF-8 width given by ByteLen.                        *)
(***************************************************************************)
EXTENDS Integers, Sequences, FiniteSets, TLC

(***************************************************************************)
(* Python string helpers                                                   *)
(***************************************************************************)
CharAt(s, i) == SubSeq(s, i, i)

StartsWith(s, p) == Len(s) >= Len(p) /\ SubSeq(s, 1, Len(p)) = p

EndsWith(s, p) == Len(s) >= Len(p) /\ SubSeq(s, Len(s) - Len(p) + 1, Len(s)) = p

Contains(s, p) == \E i \in 1..(Len(s) - Len(p) + 1) : SubSeq(s, i, i + Len(p) - 1) = p

CountChar(s, c) == Cardinality({i \in 1..Len(s) : CharAt(s, i) = c})

\* index of the last "/" in s, 0 when there is none (str.rfind("/") + 1)
RFindSlash(s) ==
    LET idx == {i \in 1..Len(s) : CharAt(s, i) = "/"}
    IN  IF idx = {} THEN 0 ELSE CHOOSE i \in idx : \A j \in idx : j <= i

RECURSIVE RStripSlash(_)
RStripSlash(s) ==
    IF Len(s) > 0 /\ CharAt(s, Len(s)) = "/" THEN RStripSlash(SubSeq(s, 1, Len(s) - 1)) ELSE s

RECURSIVE LStripSlash(_)
LStripSlash(s) ==
    IF Len(s) > 0 /\ CharAt(s, 1) = "/" THEN LStripSlash(SubSeq(s, 2, Len(s))) ELSE s

\* str.split("/"): the sequence of the parts between the separators
RECURSIVE SplitSlash(_)
SplitSlash(s) ==
    LET idx == {i \in 1..Len(s) : CharAt(s, i) = "/"}
    IN  IF idx = {} THEN <<s>>
        ELSE LET i == CHOOSE k \in idx : \A j \in idx : k <= j
             IN  <<SubSeq(s, 1, i - 1)>> \o SplitSlash(SubSeq(s, i + 1, Len(s)))

RECURSIVE JoinSlash(_)
JoinSlash(parts) ==
    IF Len(parts) = 0 THEN ""
    ELSE IF Len(parts) = 1 THEN parts[1]
    ELSE parts[1] \o "/" \o JoinSlash(Tail(parts))

LowerChar(c) ==
    CASE c = "A" -> "a" [] c = "B" -> "b" [] c = "C" -> "c" [] c = "D" -> "d"
      [] c = "E" -> "e" [] c = "F" -> "f" [] c = "G" -> "g" [] c = "H" -> "h"
      [] c = "I" -> "i" [] c = "J" -> "j" [] c = "K" -> "k" [] c = "L" -> "l"
      [] c = "M" -> "m" [] c = "N" -> "n" [] c = "O" -> "o" [] c = "P" -> "p"
      [] c = "Q" -> "q" [] c = "R" -> "r" [] c = "S" -> "s" [] c = "T" -> "t"
      [] c = "U" -> "u" [] c = "V" -> "v" [] c = "W" -> "w" [] c = "X" -> "x"
      [] c = "Y" -> "y" [] c = "Z" -> "z" [] OTHER -> c

RECURSIVE Lower(_)
Lower(s) == IF Len(s) = 0 THEN "" ELSE LowerChar(CharAt(s, 1)) \o Lower(SubSeq(s, 2, Len(s)))

\* posixpath.basename, posixpath.dirname, posixpath.splitext, posixpath.normpath
basename(p) == SubSeq(p, RFindSlash(p) + 1, Len(p))

dirname(p) ==
    LET head == SubSeq(p, 1, RFindSlash(p))
    IN  IF head # "" /\ RStripSlash(head) # "" THEN RStripSlash(head) ELSE head

RECURSIVE NormComps(_, _, _)
NormComps(comps, new_comps, initial_slashes) ==
    IF Len(comps) = 0 THEN new_comps
    ELSE LET comp == Head(comps)
             n    == Len(new_comps)
         IN  IF comp \in {"", "."} THEN NormComps(Tail(comps), new_comps, initial_slashes)
             ELSE IF comp # ".." \/ (~initial_slashes /\ n = 0) \/ (n > 0 /\ new_comps[n] = "..")
                  THEN NormComps(Tail(comps), Append(new_comps, comp), initial_slashes)
             ELSE IF n > 0
                  THEN NormComps(Tail(comps), SubSeq(new_comps, 1, n - 1), initial_slashes)
             ELSE NormComps(Tail(comps), new_comps, initial_slashes)

normpath(path) ==
    IF path = "" THEN "."
    ELSE LET initial_slashes == StartsWith(path, "/")
             joined == JoinSlash(NormComps(SplitSlash(path), <<>>, initial_slashes))
             out    == IF initial_slashes
                       THEN (IF StartsWith(path, "//") /\ ~StartsWith(path, "///") THEN "//" ELSE "/") \o joined
                       ELSE joined
         IN  IF out = "" THEN "." ELSE out

(***************************************************************************)
(* Path classifier                                                         *)
(***************************************************************************)
SKIP_DIRS ==
    {"node_modules", ".git", ".idea", ".vscode", "build", "dist", "target",
     ".gradle", ".next", ".cache", ".turbo", "__MACOSX"}

SKIP_PREFIXES == {"./", "._"}

PROJECT_ROOT_MARKERS ==
    {"package.json", "pom.xml", "build.gradle", "build.gradle.kts",
     "settings.gradle", "settings.gradle.kts", "requirements.txt",
     "pyproject.toml", "go.mod", "Gemfile", "Cargo.toml",
     "Dockerfile", "docker-compose.yml", "docker-compose.yaml",
     "main.tf", "versions.tf"}

should_skip_path(path) ==
    LET norm  == LStripSlash(normpath(path))
        parts == SplitSlash(norm)
    IN  \/ EndsWith(norm, "/")
        \/ \E p \in SKIP_PREFIXES : StartsWith(norm, p)
        \/ \E i \in 1..(Len(parts) - 1) : parts[i] \in SKIP_DIRS
        \/ StartsWith(basename(norm), "._")

(***************************************************************************)
(* Project detection.  The dict project_roots is a sequence of             *)
(* [root, files] entries in insertion order, with distinct roots.          *)
(***************************************************************************)
Qualifies_Any(path) == TRUE

Qualifies(path) == ~(should_skip_path(path) \/ EndsWith(path, "/"))

HasRoot(roots, r) == \E i \in 1..Len(roots) : roots[i].root = r

\* first loop: the directory of every marker file becomes a root
RECURSIVE CollectRoots(_, _)
CollectRoots(paths, roots) ==
    IF Len(paths) = 0 THEN roots
    ELSE LET path     == Head(paths)
             d        == dirname(path)
             dir_path == IF d = "" THEN "." ELSE d
         IN  IF Qualifies(path) /\ basename(path) \in PROJECT_ROOT_MARKERS /\ ~HasRoot(roots, dir_path)
             THEN CollectRoots(Tail(paths), Append(roots, [root |-> dir_path, files |-> {}]))
             ELSE CollectRoots(Tail(paths), roots)

RootMatches_Any(root, path) == TRUE

RootMatches(root, path) == root = "." \/ StartsWith(path, root \o "/") \/ path = root

RootDepth(root) == CountChar(root, "/")

\* inner loop: the first root in key order with the greatest depth; "" is None
RECURSIVE AssignedRoot(_, _, _, _, _)
AssignedRoot(roots, i, path, assigned_root, max_depth) ==
    IF i > Len(roots) THEN assigned_root
    ELSE LET root == roots[i].root
         IN  IF RootMatches(root, path) /\ RootDepth(root) > max_depth
             THEN AssignedRoot(roots, i + 1, path, root, RootDepth(root))
             ELSE AssignedRoot(roots, i + 1, path, assigned_root, max_depth)

\* second loop: every qualifying path is added to its assigned root
RECURSIVE AssignPaths(_, _)
AssignPaths(paths, roots) ==
    IF Len(paths) = 0 THEN roots
    ELSE LET path == Head(paths)
             a    == AssignedRoot(roots, 1, path, "", -1)
         IN  IF Qualifies(path) /\ a # ""
             THEN AssignPaths(Tail(paths),
                      [i \in 1..Len(roots) |->
                          IF roots[i].root = a
                          THEN [roots[i] EXCEPT !.files = @ \cup {path}]
                          ELSE roots[i]])
             ELSE AssignPaths(Tail(paths), roots)

DropEmpty(roots) == SelectSeq(roots, LAMBDA e : e.files # {})

RegisteredRoots_NoSentinel(all_paths) == CollectRoots(all_paths, <<>>)

RegisteredRoots(all_paths) ==
    LET found == CollectRoots(all_paths, <<>>)
    IN  IF Len(found) = 0 THEN <<[root |-> ".", files |-> {}]>> ELSE found

detect_project_roots(all_paths) == DropEmpty(AssignPaths(all_paths, RegisteredRoots(all_paths)))

(***************************************************************************)
(* Text: a sequence of characters.  A character is a one-letter string, or *)
(* the name of a character that takes several bytes or has no literal:     *)
(* "ELLIPSIS" is U+2026, "REPL" is U+FFFD, "CTRL" is U+0001.  "BAD" is a   *)
(* byte that is no valid UTF-8; it occurs in raw content only.             *)
(***************************************************************************)
Chars(s) == [i \in 1..Len(s) |-> CharAt(s, i)]

ByteLen(c) == IF c \in {"ELLIPSIS", "REPL"} THEN 3 ELSE 1

RECURSIVE Utf8Len(_)
Utf8Len(t) == IF Len(t) = 0 THEN 0 ELSE ByteLen(Head(t)) + Utf8Len(Tail(t))

\* text.encode("utf-8")[:n].decode("utf-8", errors="ignore"): the longest
\* prefix of whole characters that takes at most n bytes
\* the text is cut by characters, not by encoded bytes
CutBytes_Chars(t, n) == SubSeq(t, 1, IF n < Len(t) THEN n ELSE Len(t))

\* t.encode("utf-8")[:n].decode("utf-8", errors="ignore")
RECURSIVE CutBytes(_, _)
CutBytes(t, n) ==
    IF Len(t) = 0 \/ ByteLen(Head(t)) > n THEN <<>>
    ELSE <<Head(t)>> \o CutBytes(Tail(t), n - ByteLen(Head(t)))

\* content.decode("utf-8", errors="replace")
decode_replace(content) == [i \in 1..Len(content) |-> IF content[i] = "BAD" THEN "REPL" ELSE content[i]]

LowerText(t) == [i \in 1..Len(t) |-> LowerChar(t[i])]

ContainsSeq(t, k) == \E i \in 1..(Len(t) - Len(k) + 1) : SubSeq(t, i, i + Len(k) - 1) = k

\* first index >= from whose character is in set S, Len(t) + 1 when none
FirstIn(t, from, S) ==
    LET idx == {i \in from..Len(t) : t[i] \in S}
    IN  IF idx = {} THEN Len(t) + 1 ELSE CHOOSE i \in idx : \A j \in idx : i <= j

\* first index >= from whose character is not in set S, Len(t) + 1 when none
FirstNotIn(t, from, S) ==
    LET idx == {i \in from..Len(t) : t[i] \notin S}
    IN  IF idx = {} THEN Len(t) + 1 ELSE CHOOSE i \in idx : \A j \in idx : i <= j

LINE_BREAKS == {"\n", "\r"}

\* str.splitlines()
RECURSIVE splitlines(_)
splitlines(t) ==
    IF Len(t) = 0 THEN <<>>
    ELSE LET i == FirstIn(t, 1, LINE_BREAKS)
         IN  IF i > Len(t) THEN <<t>>
             ELSE LET skip == IF t[i] = "\r" /\ i < Len(t) /\ t[i + 1] = "\n" THEN i + 2 ELSE i + 1
                  IN  <<SubSeq(t, 1, i - 1)>> \o splitlines(SubSeq(t, skip, Len(t)))

\* "\n".join(lines)
RECURSIVE JoinLines(_)
JoinLines(lines) ==
    IF Len(lines) = 0 THEN <<>>
    ELSE IF Len(lines) = 1 THEN lines[1]
    ELSE lines[1] \o <<"\n">> \o JoinLines(Tail(lines))

(***************************************************************************)
(* Content sanitizer: redact_secrets                                       *)
(***************************************************************************)
SENSITIVE_KEYS ==
    {Chars("secret"), Chars("password"), Chars("passwd"), Chars("token"),
     Chars("apikey"), Chars("access_key"), Chars("secret_key")}

HasSensitiveKey(line) == \E k \in SENSITIVE_KEYS : ContainsSeq(LowerText(line), k)

\* line.partition(sep)[0]
PartitionHead(line, sep) == SubSeq(line, 1, FirstIn(line, 1, {sep}) - 1)

RedactLine_Blanket(line) == Chars("***REDACTED LINE***")

RedactLine(line) ==
    IF HasSensitiveKey(line)
    THEN IF \E i \in 1..Len(line) : line[i] = "="
         THEN PartitionHead(line, "=") \o Chars("=***REDACTED***")
         ELSE IF \E i \in 1..Len(line) : line[i] = ":"
         THEN PartitionHead(line, ":") \o Chars(": ***REDACTED***")
         ELSE Chars("***REDACTED LINE***")
    ELSE line

redact_secrets(text) ==
    LET lines == splitlines(text)
    IN  JoinLines([i \in 1..Len(lines) |-> RedactLine(lines[i])])

(***************************************************************************)
(* Limits.  The byte, character and file limits are scaled down so that    *)
(* bounded inputs reach them; the source values are 200 (MAX_LINE_CHARS),  *)
(* 16_000 (MAX_BYTES_PER_FILE), 350_000 (MAX_TOTAL_BYTES), 50              *)
(* (MAX_FILES_PER_PROJECT), 120 (MAX_TOTAL_FILES).  The markers the code   *)
(* appends keep their real lengths.                                        *)
(***************************************************************************)
MAX_LINE_CHARS == 6

MAX_BYTES_PER_FILE == 20

LINE_ELLIPSIS == <<" ", "ELLIPSIS">>

TRUNCATED_MARKER == <<"\n", "ELLIPSIS", " ">> \o Chars("[TRUNCATED]")

(***************************************************************************)
(* Content sanitizer: strip_comments_and_minify.  The comment patterns of  *)
(* COMMENT_RE are matched at a position i of the text; a match is given by *)
(* the index after its last character, 0 meaning no match at i.            *)
(***************************************************************************)
WHITESPACE == {" ", "\t", "\n", "\r"}

\* (^\s*#.*?$) with re.MULTILINE
HashMatchEnd(t, i) ==
    IF ~(i = 1 \/ t[i - 1] = "\n") THEN 0
    ELSE LET j == FirstNotIn(t, i, WHITESPACE)
         IN  IF j <= Len(t) /\ t[j] = "#" THEN FirstIn(t, j, {"\n"}) ELSE 0

\* (//.*?$)|(/\*.*?\*/) with re.DOTALL | re.MULTILINE
CLikeMatchEnd(t, i) ==
    IF i + 1 <= Len(t) /\ t[i] = "/" /\ t[i + 1] = "/" THEN FirstIn(t, i + 2, {"\n"})
    ELSE IF i + 1 <= Len(t) /\ t[i] = "/" /\ t[i + 1] = "*"
    THEN LET close == {k \in (i + 2)..(Len(t) - 1) : t[k] = "*" /\ t[k + 1] = "/"}
         IN  IF close = {} THEN 0 ELSE (CHOOSE k \in close : \A j \in close : k <= j) + 2
    ELSE 0

\* a triple-quoted string, the quote character being q, with re.DOTALL
TripleMatchEnd(t, i, q) ==
    IF i + 2 <= Len(t) /\ t[i] = q /\ t[i + 1] = q /\ t[i + 2] = q
    THEN LET close == {k \in (i + 3)..(Len(t) - 2) : t[k] = q /\ t[k + 1] = q /\ t[k + 2] = q}
         IN  IF close = {} THEN 0 ELSE (CHOOSE k \in close : \A j \in close : k <= j) + 3
    ELSE 0

\* a "#" line or a triple-quoted string, with re.DOTALL | re.MULTILINE
PyMatchEnd(t, i) ==
    IF HashMatchEnd(t, i) > 0 THEN HashMatchEnd(t, i)
    ELSE IF TripleMatchEnd(t, i, "'") > 0 THEN TripleMatchEnd(t, i, "'")
    ELSE TripleMatchEnd(t, i, "\"")

RECURSIVE LStripDot(_)
LStripDot(s) == IF Len(s) > 0 /\ CharAt(s, 1) = "." THEN LStripDot(SubSeq(s, 2, Len(s))) ELSE s

\* COMMENT_RE.get(lang, COMMENT_RE["default"]); "default" ($^) matches nothing
COMMENT_RE(lang) ==
    IF lang \in {"js", "ts", "java", "kt", "go"} THEN "clike"
    ELSE IF lang = "py" THEN "py"
    ELSE IF lang \in {"sh", "yml", "yaml", "properties"} THEN "hash"
    ELSE "default"

MatchEnd(rx, t, i) ==
    IF rx = "clike" THEN CLikeMatchEnd(t, i)
    ELSE IF rx = "py" THEN PyMatchEnd(t, i)
    ELSE IF rx = "hash" THEN HashMatchEnd(t, i)
    ELSE 0

\* rx.sub("", text)
RECURSIVE SubComments(_, _, _)
SubComments(rx, t, i) ==
    IF i > Len(t) THEN <<>>
    ELSE IF MatchEnd(rx, t, i) > 0 THEN SubComments(rx, t, MatchEnd(rx, t, i))
    ELSE <<t[i]>> \o SubComments(rx, t, i + 1)

\* re.sub(r"\s+", " ", line)
RECURSIVE CollapseSpace(_)
CollapseSpace(line) ==
    IF Len(line) = 0 THEN <<>>
    ELSE IF Head(line) \in WHITESPACE
    THEN <<" ">> \o CollapseSpace(SubSeq(line, FirstNotIn(line, 1, WHITESPACE), Len(line)))
    ELSE <<Head(line)>> \o CollapseSpace(Tail(line))

\* str.strip()
Strip(line) ==
    LET a == FirstNotIn(line, 1, WHITESPACE)
        e == {i \in 1..Len(line) : line[i] \notin WHITESPACE}
        b == IF e = {} THEN 0 ELSE CHOOSE i \in e : \A j \in e : j <= i
    IN  SubSeq(line, a, b)

MinifyLine(line) ==
    LET l == Strip(CollapseSpace(line))
    IN  IF Len(l) > MAX_LINE_CHARS THEN SubSeq(l, 1, MAX_LINE_CHARS) \o LINE_ELLIPSIS ELSE l

CapBytes(out) ==
    IF Utf8Len(out) > MAX_BYTES_PER_FILE
    THEN CutBytes(out, MAX_BYTES_PER_FILE) \o TRUNCATED_MARKER
    ELSE out

strip_comments_and_minify(text, ext) ==
    LET rx    == COMMENT_RE(LStripDot(Lower(ext)))
        raw   == splitlines(SubComments(rx, text, 1))
        lines == SelectSeq([i \in 1..Len(raw) |-> MinifyLine(raw[i])], LAMBDA l : Len(l) > 0)
    IN  CapBytes(JoinLines(lines))

strip_and_cap_bytes(content, ext) ==
    strip_comments_and_minify(redact_secrets(decode_replace(content)), ext)

(***************************************************************************)
(* Signal files and their priority                                         *)
(***************************************************************************)
SIGNAL_BASENAMES ==
    {"package.json", "pnpm-lock.yaml", "yarn.lock", "pom.xml",
     "build.gradle", "build.gradle.kts", "settings.gradle", "settings.gradle.kts",
     "requirements.txt", "pyproject.toml", "Pipfile", "Pipfile.lock",
     "go.mod", "Gemfile", "Cargo.toml", "Cargo.lock",
     "Dockerfile", "docker-compose.yml", "docker-compose.yaml",
     ".gitlab-ci.yml", ".travis.yml", "cdk.json"}

SIGNAL_SUFFIXES == {".tf", ".tfvars", ".tf.json", ".tfvars.json", ".yaml", ".yml", ".properties"}

SIGNAL_PATH_PARTS == {".github/workflows", "src/main/resources"}

is_signal_path_Listed(path) ==
    LET b == basename(path)
    IN  \/ b \in SIGNAL_BASENAMES
        \/ StartsWith(b, "Dockerfile")
        \/ StartsWith(Lower(b), "readme")

is_signal_path(path) ==
    LET b     == basename(path)
        parts == SplitSlash(path)
    IN  \/ b \in SIGNAL_BASENAMES
        \/ StartsWith(b, "Dockerfile")
        \/ StartsWith(Lower(b), "readme")
        \/ (StartsWith(b, "application")
              /\ (EndsWith(b, ".yml") \/ EndsWith(b, ".yaml") \/ EndsWith(b, ".properties")))
        \/ \E suf \in SIGNAL_SUFFIXES : EndsWith(b, suf)
        \/ \E p \in SIGNAL_PATH_PARTS : \E i \in 1..Len(parts) : parts[i] = p

score(p) ==
    LET p_l  == Lower(p)
        base == basename(p_l)
    IN  IF EndsWith(p_l, ".tf") \/ EndsWith(p_l, ".tfvars") \/ EndsWith(p_l, ".tf.json") THEN 100
        ELSE IF Contains(p_l, "docker") \/ Contains(p_l, "compose") THEN 90
        ELSE IF base \in {"package.json", "pom.xml", "build.gradle", "build.gradle.kts"} THEN 80
        ELSE IF Contains(p_l, "application")
                  /\ (EndsWith(p_l, ".yml") \/ EndsWith(p_l, ".yaml") \/ EndsWith(p_l, ".properties"))
             THEN 70
        ELSE IF StartsWith(base, "readme") THEN 60
        ELSE 10

SCORES == <<100, 90, 80, 70, 60, 10>>

RECURSIVE ScoreKeys(_)
ScoreKeys(names) ==
    IF Len(names) = 0 THEN <<>> ELSE <<score(Head(names))>> \o ScoreKeys(Tail(names))

RECURSIVE Tier(_, _, _, _)
Tier(names, keys, s, i) ==
    IF i > Len(names) THEN <<>>
    ELSE (IF keys[i] = s THEN <<names[i]>> ELSE <<>>) \o Tier(names, keys, s, i + 1)

RECURSIVE Tiers(_, _, _)
Tiers(names, keys, k) ==
    IF k > Len(SCORES) THEN <<>>
    ELSE Tier(names, keys, SCORES[k], 1) \o Tiers(names, keys, k + 1)

\* list.sort(key=score, reverse=True): stable, equal scores keep their order
SortByScore(names) == Tiers(names, ScoreKeys(names), 1)

\* posixpath.splitext(name)[1]: from the last "." of the basename, unless
\* that "." starts the basename
splitext(name) ==
    LET b   == basename(name)
        idx == {i \in 1..Len(b) : CharAt(b, i) = "."}
        dot == IF idx = {} THEN 0 ELSE CHOOSE i \in idx : \A j \in idx : j <= i
        led == FirstNotIn(Chars(b), 1, {"."})
    IN  IF dot > led THEN SubSeq(b, dot, Len(b)) ELSE ""

ProjectName(project_root) == IF project_root # "." THEN basename(project_root) ELSE "root"

RelPath(project_root, name) ==
    IF project_root # "." /\ StartsWith(name, project_root \o "/")
    THEN SubSeq(name, Len(project_root) + 2, Len(name))
    ELSE name

(***************************************************************************)
(* Prompt and payload size.  json.dumps(..., ensure_ascii=False) writes    *)
(* a control character as six bytes and a quote, backslash, newline or tab *)
(* as two.                                                                 *)
(***************************************************************************)
JsonCharLen(c) ==
    IF c = "CTRL" THEN 6
    ELSE IF c \in {"\n", "\r", "\t", "\"", "\\"} THEN 2
    ELSE ByteLen(c)

RECURSIVE JsonLen(_)
JsonLen(t) == IF Len(t) = 0 THEN 0 ELSE JsonCharLen(Head(t)) + JsonLen(Tail(t))

\* bytes of the serialized request around an empty prompt
PAYLOAD_WRAPPER_BYTES == 132

\* bytes of the serialized prompt header, without project name and root
PROMPT_HEADER_BYTES == 1039

\* bytes of "Output strictly valid JSON."
PROMPT_FOOTER_BYTES == 27

\* scaled: the source value is 1_200_000
PAYLOAD_SOFT_CAP_BYTES == 1360

\* line 319: the payload guard of safe_invoke_bedrock raises ValueError
too_large_Off(n) == FALSE

too_large(n) == n > PAYLOAD_SOFT_CAP_BYTES

\* serialized bytes of "[path]\n" + content + "\n---\n"
RECURSIVE FilePartsBytes(_)
FilePartsBytes(file_summaries) ==
    IF Len(file_summaries) = 0 THEN 0
    ELSE LET fs == Head(file_summaries)
         IN  JsonLen(Chars("[" \o fs.path \o "]")) + JsonLen(<<"\n">>)
               + JsonLen(fs.content) + JsonLen(Chars("\n---\n"))
               + FilePartsBytes(Tail(file_summaries))

\* len(payload_check.encode("utf-8")) for the prompt of build_llm_prompt
payload_bytes(file_summaries, project_name, project_root) ==
    PAYLOAD_WRAPPER_BYTES + PROMPT_HEADER_BYTES
      + JsonLen(Chars(project_name)) + JsonLen(Chars(project_root))
      + FilePartsBytes(file_summaries) + PROMPT_FOOTER_BYTES

(***************************************************************************)
(* Post-processing of the model's answer.  json.loads is modelled on the   *)
(* documents "{}" (an object) and "[]" (an array); any other text is a     *)
(* JSONDecodeError.                                                        *)
(***************************************************************************)
StripChars(t, S) ==
    LET e == {i \in 1..Len(t) : t[i] \notin S}
    IN  IF e = {} THEN <<>>
        ELSE SubSeq(t, CHOOSE i \in e : \A j \in e : i <= j, CHOOSE i \in e : \A j \in e : j <= i)

\* three backticks; "BACKTICK" names the character
FENCE == <<"BACKTICK", "BACKTICK", "BACKTICK">>

RemoveFence(llm_text) ==
    IF Len(llm_text) >= 3 /\ SubSeq(llm_text, 1, 3) = FENCE
    THEN LET t1   == StripChars(llm_text, {"BACKTICK"})
             idx  == FirstIn(t1, 1, {"{"})
             t2   == IF idx <= Len(t1) THEN SubSeq(t1, idx, Len(t1)) ELSE t1
             ends == {i \in 1..Len(t2) : t2[i] = "}"}
         IN  IF ends = {} THEN t2 ELSE SubSeq(t2, 1, CHOOSE i \in ends : \A j \in ends : j <= i)
    ELSE llm_text

\* the JSON objects the model answers with, and infrastructure.aws of each
\* as the merger reads it (a dict is a sequence of <<key, value>> pairs; a
\* value is a string or a dict)
JSON_OBJECTS ==
    << <<Chars("{\"infrastructure\":{\"aws\":{\"ec2\":\"t3\"}}}"),
         << <<"ec2", [kind |-> "str", str |-> "t3", dict |-> <<>>]>> >> >>,
       <<Chars("{\"infrastructure\":{\"aws\":{\"ec2\":{\"type\":\"a\"}}}}"),
         << <<"ec2", [kind |-> "dict", str |-> "", dict |-> << <<"type", "a">> >>]>> >> >> >>

json_loads(t) ==
    LET s == StripChars(t, WHITESPACE)
    IN  IF \E i \in 1..Len(JSON_OBJECTS) : s = JSON_OBJECTS[i][1] THEN "object"
        ELSE IF s = Chars("[]") THEN "array" ELSE "error"

\* metadata["infrastructure"]["aws"] of the object parsed from the answer
ParsedAws(llm_raw) ==
    LET s == StripChars(RemoveFence(StripChars(llm_raw, WHITESPACE)), WHITESPACE)
        k == {i \in 1..Len(JSON_OBJECTS) : s = JSON_OBJECTS[i][1]}
    IN  IF k = {} THEN <<>> ELSE JSON_OBJECTS[CHOOSE i \in k : TRUE][2]

\* the result of lines 508-523 on the answer llm_raw: "success" when a JSON
\* object was parsed and annotated, else the exception that is caught
ParseAnswer(llm_raw) ==
    LET kind == json_loads(RemoveFence(StripChars(llm_raw, WHITESPACE)))
    IN  IF kind = "object" THEN "success"
        ELSE IF kind = "array" THEN "TypeError"
        ELSE "JSONDecodeError"

(***************************************************************************)
(* Metadata merger.  A dict is a sequence of <<key, value>> pairs with     *)
(* distinct keys, in insertion order.  A value of infrastructure.aws is a  *)
(* string or a dict of strings.  A document is a record of the fields the  *)
(* merger reads; deployment.present tells whether the key is there.        *)
(* Lines 521-522 give every document its projectName and projectRoot.      *)
(*                                                                         *)
(* Python assigns dicts by reference: merged["infrastructure"]["aws"][key] *)
(* and merged["deployment"] are the objects of an input document, named    *)
(* here by the index of that document (0: an object of the merger's own).  *)
(***************************************************************************)
HasKey(d, k) == \E i \in 1..Len(d) : d[i][1] = k

Get(d, k) == d[CHOOSE i \in 1..Len(d) : d[i][1] = k][2]

\* d[k] = v
Put(d, k, v) ==
    IF HasKey(d, k)
    THEN [i \in 1..Len(d) |-> IF d[i][1] = k THEN <<k, v>> ELSE d[i]]
    ELSE Append(d, <<k, v>>)

\* d.update(e)
RECURSIVE Update(_, _)
Update(d, e) ==
    IF Len(e) = 0 THEN d ELSE Update(Put(d, Head(e)[1], Head(e)[2]), Tail(e))

StrVal(s) == [kind |-> "str", str |-> s, dict |-> <<>>]

DictVal(d) == [kind |-> "dict", str |-> "", dict |-> d]

\* bool(value)
Truthy(v) == IF v.kind = "str" THEN v.str # "" ELSE Len(v.dict) > 0

\* lines 365-370 for the items of document j; st.aws maps a key to the
\* document that owns the merged value
RECURSIVE MergeAwsItems(_, _, _)
MergeAwsItems(st, j, items) ==
    IF Len(items) = 0 \/ st.raised THEN st
    ELSE LET key   == Head(items)[1]
             value == Head(items)[2]
             rest  == Tail(items)
         IN  IF ~Truthy(value) THEN MergeAwsItems(st, j, rest)
             ELSE IF ~HasKey(st.aws, key)
             THEN MergeAwsItems([st EXCEPT !.aws = Append(@, <<key, j>>)], j, rest)
             ELSE IF value.kind = "dict"
             THEN LET o      == Get(st.aws, key)
                      target == Get(st.docs[o].aws, key)
                  IN  IF target.kind # "dict"
                      THEN [st EXCEPT !.raised = TRUE]
                      ELSE MergeAwsItems(
                               [st EXCEPT !.docs[o].aws =
                                   Put(@, key, DictVal(Update(target.dict, value.dict)))],
                               j, rest)
             ELSE MergeAwsItems(st, j, rest)

\* lines 346-352: the entry of merged["projects"] for a document
ProjectEntry_Unnamed(meta) ==
    [name |-> "project", root |-> meta.projectRoot, serviceCount |-> Len(meta.services)]

ProjectEntry(meta) ==
    [name |-> meta.projectName, root |-> meta.projectRoot,
     serviceCount |-> Len(meta.services)]

\* lines 355-359: the copy of a service that goes to merged["services"]
ServiceCopy_Unprefixed(svc, project_name) == Put(svc, "project", project_name)

ServiceCopy(svc, project_name) ==
    Put(IF HasKey(svc, "name")
        THEN Put(svc, "name", project_name \o "/" \o Get(svc, "name"))
        ELSE svc,
        "project", project_name)

\* line 373: l.extend(xs)
RECURSIVE Extend_Unique(_, _)
Extend_Unique(l, xs) ==
    IF Len(xs) = 0 THEN l
    ELSE Extend_Unique(IF \E i \in 1..Len(l) : l[i] = Head(xs) THEN l ELSE Append(l, Head(xs)),
                       Tail(xs))

Extend(l, xs) == l \o xs

\* the value of merged["deployment"]
DeploymentOf(st) == IF st.dep = 0 THEN <<>> ELSE st.docs[st.dep].deployment.fields

\* lines 344-389: the loop body for document j and the rest of the loop
RECURSIVE MergeFrom(_, _)
MergeFrom(st, j) ==
    IF j > Len(st.docs) \/ st.raised THEN st
    ELSE LET meta         == st.docs[j]
             project_name == meta.projectName
             s1 == [st EXCEPT
                      !.projects = Append(@, ProjectEntry(meta)),
                      !.services = @ \o
                          [i \in 1..Len(meta.services) |->
                              ServiceCopy(meta.services[i], project_name)]]
             s2 == MergeAwsItems(s1, j, meta.aws)
             s3 == [s2 EXCEPT !.external = Extend(@, meta.external)]
             deploy == s3.docs[j].deployment
             s4 == IF Len(DeploymentOf(s3)) = 0
                   THEN [s3 EXCEPT !.dep = IF deploy.present THEN j ELSE 0]
                   ELSE IF HasKey(deploy.fields, "terraformHints")
                           /\ ~HasKey(DeploymentOf(s3), "terraformHints")
                   THEN [s3 EXCEPT !.docs[s3.dep].deployment.fields =
                            Put(@, "terraformHints", Get(deploy.fields, "terraformHints"))]
                   ELSE s3
             s5 == [s4 EXCEPT !.findings = @ \o
                       [i \in 1..Len(meta.findings) |->
                           Put(meta.findings[i], "project", project_name)]]
         IN  IF s2.raised THEN s2 ELSE MergeFrom(s5, j + 1)

NoMerged ==
    [services |-> <<>>, aws |-> <<>>, external |-> <<>>, deployment |-> <<>>,
     findings |-> <<>>, projects |-> <<>>]

NoDocument ==
    [projectName |-> "", projectRoot |-> "", services |-> <<>>, aws |-> <<>>,
     external |-> <<>>, deployment |-> [present |-> FALSE, fields |-> <<>>],
     findings |-> <<>>]

\* merge_metadata(metadata_list): the call's result (the merged document, or
\* the AttributeError of line 370) and the input documents after the call
merge_metadata(metadata_list) ==
    LET st == MergeFrom([docs |-> metadata_list, services |-> <<>>, aws |-> <<>>,
                         external |-> <<>>, dep |-> 0, findings |-> <<>>,
                         projects |-> <<>>, raised |-> FALSE], 1)
    IN  [kind     |-> IF st.raised THEN "raised" ELSE "merged",
         document |-> NoDocument,
         merged   |-> IF st.raised THEN NoMerged
                      ELSE [services   |-> st.services,
                            aws        |-> [i \in 1..Len(st.aws) |->
                                               <<st.aws[i][1],
                                                 Get(st.docs[st.aws[i][2]].aws, st.aws[i][1])>>],
                            external   |-> st.external,
                            deployment |-> DeploymentOf(st),
                            findings   |-> st.findings,
                            projects   |-> st.projects],
         after    |-> st.docs]

\* lines 532-538: a single document is used as it is
final_metadata_AlwaysMerged(metadata_list) == merge_metadata(metadata_list)

final_metadata(metadata_list) ==
    IF Len(metadata_list) = 1
    THEN [kind |-> "document", document |-> metadata_list[1], merged |-> NoMerged,
          after |-> metadata_list]
    ELSE merge_metadata(metadata_list)

(***************************************************************************)
(* Request validation of the entry points.  A request is given by the      *)
(* place of its fields and their values: the fields lie in the event       *)
(* itself (body "absent"), in a JSON body ("json"), or in the event next    *)
(* to a body that is no JSON ("bad") or null ("null").  "" is a field      *)
(* that is absent.  The result is the response returned before any         *)
(* external call, the exception that leaves the handler, or the first      *)
(* external call made.                                                     *)
(***************************************************************************)
BODIES == {"absent", "json", "bad", "null"}

VALID_CLOUDS == {"aws", "azure", "gcp"}

Returned(status) == [pc |-> "returned", statusCode |-> status, calls |-> <<>>]

Raised == [pc |-> "raised", statusCode |-> 0, calls |-> <<>>]

Called(op) == [pc |-> "called", statusCode |-> 0, calls |-> <<op>>]

\* code-analysis.py: body.get on a null body raises outside the try block;
\* a body that is no JSON is replaced by {} and the event's fields are used
analyze_entry(e) ==
    IF e.body = "null" THEN Raised
    ELSE IF e.request_id = "" \/ e.file_name = "" THEN Returned(400)
    ELSE Called("s3.get_object")

\* survey-lambda.py: event['body'] raises KeyError without a body, json.loads
\* raises on a body that is no JSON, None.get raises; all are answered 500
survey_entry(e) ==
    IF e.body # "json" THEN Returned(500)
    ELSE IF e.request_id = "" \/ e.survey = "" THEN Returned(400)
    ELSE Called("stepfunctions.start_sync_execution")

\* download-lambda.py: cloud is defaulted and lower-cased but not checked
download_entry(e) ==
    IF e.body = "bad" THEN Returned(400)
    ELSE IF e.request_id = "" THEN Returned(400)
    ELSE Called("stepfunctions.start_sync_execution")

\* git-action.py: a body that is no JSON is replaced by {}
git_action_entry(e) ==
    IF e.body = "null" THEN Returned(500)
    ELSE IF e.body = "bad" THEN Returned(400)
    ELSE IF e.request_id = "" \/ e.cloud = "" THEN Returned(400)
    ELSE IF e.cloud \notin VALID_CLOUDS THEN Returned(400)
    ELSE Called("s3.get_object")

\* get-action-lambda.py and create-cloud-cli.py read the event only
task_entry(e, op) ==
    IF e.body = "json" \/ e.request_id = "" THEN Returned(400)
    ELSE IF Lower(IF e.cloud = "" THEN "aws" ELSE e.cloud) \notin VALID_CLOUDS THEN Returned(400)
    ELSE Called(op)

get_action_entry(e) == task_entry(e, "s3.head_object")

create_cli_entry(e) == task_entry(e, "bedrock.invoke_model")

\* terraform-aws.py, terraform-gcp.py, terraform-azure.py: event['request_id']
\* and event['survey'] raise KeyError, which is logged and raised again
terraform_entry(e) ==
    IF e.body = "json" \/ e.request_id = "" \/ e.survey = "" THEN Raised
    ELSE Called("s3.get_object")

(***************************************************************************)
(* State                                                                   *)
(***************************************************************************)
VARIABLES
    det_paths,     \* detect_project_roots: the argument all_paths
    det_roots,     \* detect_project_roots: the returned mapping
    det_pc,        \* "input" before the call, "done" after it
    red_text,      \* redact_secrets: the argument text
    red_out,       \* redact_secrets: the returned text
    red_pc,        \* "input" before the call, "done" after it
    san_content,   \* strip_and_cap_bytes: the argument content (raw bytes)
    san_ext,       \* strip_and_cap_bytes: the argument ext
    san_out,       \* strip_and_cap_bytes: the returned text
    san_pc,        \* "input" before the call, "done" after it
    \* lambda_handler of code-analysis.py
    pc,                     \* position of the handler
    event,                  \* the request
    namelist,               \* zip_ref.namelist() of the downloaded archive
    project_roots,          \* detected projects, in dict order
    proj_idx,               \* position of the loop over project_roots
    candidates,             \* ranked signal files of the current project
    cand_idx,               \* position of the loop over candidates
    project_limit,
    file_summaries,
    project_bytes,
    total_files_collected,
    used_total_bytes,
    metadata_list,
    response,               \* the returned response, statusCode 0 before it
    calls,                  \* history: external calls made, in order
    accepted,               \* history: files accepted, in order
    outcomes,               \* history: result of each project visited
    \* request validation of an entry point
    ent_name,               \* the entry point invoked
    ent_event,              \* its request
    ent_pc,                 \* "start", then "returned", "raised" or "called"
    ent_status,             \* statusCode of the response returned, else 0
    ent_calls,              \* external calls made
    \* the merge step of the analysis handler
    mrg_in,                 \* metadata_list before the step
    mrg_after,              \* the same documents after the step
    mrg_out,                \* final_metadata
    mrg_pc,                 \* "input", then "done" or "raised"
    \* ranking of candidates
    rank_in,                \* candidates before the sort
    rank_out,               \* candidates after the sort
    rank_pc,                \* "input", then "done"
    \* a handler whose external call fails
    fail_name,              \* the entry point
    fail_exc,               \* the exception the call raises
    fail_env,               \* environment variable DEBUG
    fail_qs,                \* query string parameter debug, "" when absent
    fail_pc,                \* "failed", then "done"
    fail_response,          \* the response returned, or that the exception was raised
    \* the two file classifiers on one path
    sig_path,               \* the path
    sig_signal,             \* is_signal_path(path)
    sig_marker,             \* basename(path) in PROJECT_ROOT_MARKERS
    sig_pc                  \* "input", then "done"

detVars == <<det_paths, det_roots, det_pc>>

redVars == <<red_text, red_out, red_pc>>

sanVars == <<san_content, san_ext, san_out, san_pc>>

loopVars == <<candidates, cand_idx, project_limit, file_summaries, project_bytes>>

countVars == <<total_files_collected, used_total_bytes>>

hVars == <<pc, event, namelist, project_roots, proj_idx, loopVars, countVars,
           metadata_list, response, calls, accepted, outcomes>>

entVars == <<ent_name, ent_event, ent_pc, ent_status, ent_calls>>

mrgVars == <<mrg_in, mrg_after, mrg_out, mrg_pc>>

rankVars == <<rank_in, rank_out, rank_pc>>

failVars == <<fail_name, fail_exc, fail_env, fail_qs, fail_pc, fail_response>>

sigVars == <<sig_path, sig_signal, sig_marker, sig_pc>>

vars == <<detVars, redVars, sanVars, hVars, entVars, mrgVars, rankVars, failVars, sigVars>>

\* the variables of a component that a specification does not exercise
IdleDetect == det_paths = <<>> /\ det_roots = <<>> /\ det_pc = "idle"

IdleRedact == red_text = <<>> /\ red_out = <<>> /\ red_pc = "idle"

IdleSanitize == san_content = <<>> /\ san_ext = "" /\ san_out = <<>> /\ san_pc = "idle"

NoResponse == [statusCode |-> 0, projectsAnalyzed |-> 0, filesCollected |-> 0]

NoEvent == [body |-> "absent", request_id |-> "", file_name |-> "", survey |-> "", cloud |-> ""]

HandlerFresh ==
    /\ namelist = <<>> /\ project_roots = <<>> /\ proj_idx = 0
    /\ candidates = <<>> /\ cand_idx = 0 /\ project_limit = 0
    /\ file_summaries = <<>> /\ project_bytes = 0
    /\ total_files_collected = 0 /\ used_total_bytes = 0
    /\ metadata_list = <<>> /\ response = NoResponse
    /\ calls = <<>> /\ accepted = <<>> /\ outcomes = <<>>

IdleHandler == pc = "idle" /\ event = NoEvent /\ HandlerFresh

IdleEntry ==
    /\ ent_name = "" /\ ent_event = NoEvent /\ ent_pc = "idle"
    /\ ent_status = 0 /\ ent_calls = <<>>

IdleMerge == mrg_in = <<>> /\ mrg_after = <<>> /\ mrg_out = <<>> /\ mrg_pc = "idle"

IdleRank == rank_in = <<>> /\ rank_out = <<>> /\ rank_pc = "idle"

NoException == [class |-> "", code |-> "", message |-> "", str |-> ""]

NoQuery == [isdict |-> TRUE, debug |-> ""]

IdleFail ==
    /\ fail_name = "" /\ fail_exc = NoException /\ fail_env = "" /\ fail_qs = NoQuery
    /\ fail_pc = "idle" /\ fail_response = <<>>

IdleSignal == sig_path = "" /\ sig_signal = FALSE /\ sig_marker = FALSE /\ sig_pc = "idle"

(***************************************************************************)
(* Bounded inputs of the project detector                                  *)
(***************************************************************************)
MaxPaths == 4

DetectUniverse ==
    {"package.json", "README.md", "app/package.json", "app/src/index.js",
     "app/src/main.tf", "infra/main.tf", "infra/variables.tf",
     "node_modules/x/package.json", "app/._main.tf", "app/"}

RECURSIVE DistinctSeqs(_, _)
DistinctSeqs(S, n) ==
    IF n = 0 THEN {<<>>}
    ELSE LET shorter == DistinctSeqs(S, n - 1)
         IN  shorter \cup {Append(q, x) : q \in {r \in shorter : Len(r) = n - 1},
                                          x \in S}

NoRepeat(q) == \A i, j \in 1..Len(q) : i # j => q[i] # q[j]

PathLists(S, n) == {q \in DistinctSeqs(S, n) : NoRepeat(q)}

InitDetect ==
    /\ det_paths \in PathLists(DetectUniverse, MaxPaths)
    /\ det_roots = <<>>
    /\ det_pc = "input"
    /\ IdleRedact /\ IdleSanitize /\ IdleHandler /\ IdleEntry
    /\ IdleMerge /\ IdleRank /\ IdleFail /\ IdleSignal

Detect ==
    /\ det_pc = "input"
    /\ det_roots' = detect_project_roots(det_paths)
    /\ det_pc' = "done"
    /\ UNCHANGED <<det_paths, redVars, sanVars, hVars, entVars, mrgVars, rankVars, failVars, sigVars>>

NextDetect == Detect

SpecDetect == InitDetect /\ [][NextDetect]_vars

(***************************************************************************)
(* Bounded inputs of the sanitizer: texts are concatenations of pieces     *)
(***************************************************************************)
MaxRedactPieces == 4

MaxSanPieces == 3

RECURSIVE Concat(_)
Concat(ps) == IF Len(ps) = 0 THEN <<>> ELSE Head(ps) \o Concat(Tail(ps))

Texts(pieces, n) == {Concat(ps) : ps \in DistinctSeqs(pieces, n)}

RedactPieces ==
    {Chars("token"), Chars("PassWord"), <<"=">>, <<":">>, <<"a">>, <<"b">>, <<"\n">>}

SanPieces ==
    {Chars("aaaaaaa\n"), <<"a">>, <<" ">>, <<"\n">>, <<"#">>, Chars("//"), Chars("/*"),
     Chars("*/"), Chars("'''"), <<"ELLIPSIS">>, <<"BAD">>, Chars("token=x")}

SanExts == {".txt", ".yml", ".js", ".PY"}

InitRedact ==
    /\ red_text \in Texts(RedactPieces, MaxRedactPieces)
    /\ red_out = <<>>
    /\ red_pc = "input"
    /\ IdleDetect /\ IdleSanitize /\ IdleHandler /\ IdleEntry
    /\ IdleMerge /\ IdleRank /\ IdleFail /\ IdleSignal

Redact ==
    /\ red_pc = "input"
    /\ red_out' = redact_secrets(red_text)
    /\ red_pc' = "done"
    /\ UNCHANGED <<red_text, detVars, sanVars, hVars, entVars, mrgVars, rankVars, failVars, sigVars>>

NextRedact == Redact

SpecRedact == InitRedact /\ [][NextRedact]_vars

InitSanitize ==
    /\ san_content \in Texts(SanPieces, MaxSanPieces)
    /\ san_ext \in SanExts
    /\ san_out = <<>>
    /\ san_pc = "input"
    /\ IdleDetect /\ IdleRedact /\ IdleHandler /\ IdleEntry
    /\ IdleMerge /\ IdleRank /\ IdleFail /\ IdleSignal

Sanitize ==
    /\ san_pc = "input"
    /\ san_out' = strip_and_cap_bytes(san_content, san_ext)
    /\ san_pc' = "done"
    /\ UNCHANGED <<san_content, san_ext, detVars, redVars, hVars, entVars, mrgVars, rankVars, failVars, sigVars>>

NextSanitize == Sanitize

SpecSanitize == InitSanitize /\ [][NextSanitize]_vars

(***************************************************************************)
(* The analysis handler, lambda_handler of code-analysis.py                *)
(***************************************************************************)
MAX_FILES_PER_PROJECT == 2

MAX_TOTAL_FILES == 3

MAX_TOTAL_BYTES == 40

MaxNames == 4

\* the members an archive is drawn from, in the order the archive lists them
ArchiveListing ==
    <<"x/main.tf", "x/a.yml", "x/b.yml", "x/dist/c.yml", "y/main.tf", "y/b.yml",
      "z/Dockerfile", "i.js">>

RECURSIVE PickFrom(_, _, _)
PickFrom(listing, S, i) ==
    IF i > Len(listing) THEN <<>>
    ELSE (IF i \in S THEN <<listing[i]>> ELSE <<>>) \o PickFrom(listing, S, i + 1)

\* the name lists of the archives with at most n members
Archives(listing, n) ==
    {PickFrom(listing, S, 1) : S \in {T \in SUBSET (1..Len(listing)) : Cardinality(T) <= n}}

\* raw contents zip_ref.read can return
RawContents ==
    {Chars("a=1"),
     Chars("aaaaaaa\nbbbbbbb"),
     Chars("token=x\nkey: v"),
     <<"CTRL", "CTRL", "CTRL", "CTRL", "CTRL", "CTRL", "\n",
       "CTRL", "CTRL", "CTRL", "CTRL", "CTRL", "CTRL", "\n",
       "CTRL", "CTRL", "CTRL", "CTRL", "CTRL", "CTRL">>}

\* answers the model can give
LlmAnswers ==
    {JSON_OBJECTS[1][1],
     FENCE \o Chars("json\n") \o JSON_OBJECTS[2][1] \o Chars("\n") \o FENCE,
     Chars("[]"),
     Chars("oops")}

\* requests of the entry points
EntryEvents ==
    [body : BODIES, request_id : {"", "r1"}, file_name : {"", "source.zip"},
     survey : {"", "s1"}, cloud : {"", "aws", "AWS", "oracle"}]

\* requests of the analysis handler, which reads neither survey nor cloud
HandlerEvents == {e \in EntryEvents : e.survey = "" /\ e.cloud = ""}

Min(a, b) == IF a <= b THEN a ELSE b

\* the orders in which a Python set of strings can be iterated
Orders(S) == {q \in PathLists(S, Cardinality(S)) : Len(q) = Cardinality(S)}

Respond(status) ==
    [statusCode |-> status, projectsAnalyzed |-> Len(metadata_list),
     filesCollected |-> total_files_collected]

ErrorResponse(status) == [statusCode |-> status, projectsAnalyzed |-> 0, filesCollected |-> 0]

Call(op, key, bytes) == [op |-> op, key |-> key, bytes |-> bytes]

\* a request with both fields is handled from line 411 on in the same way
\* wherever the fields lie; the handler is run on those that lie in the event
Init ==
    /\ pc = "start"
    /\ event \in {e \in HandlerEvents :
                     (e.request_id # "" /\ e.file_name # "") => e.body \in {"absent", "null"}}
    /\ HandlerFresh
    /\ IdleDetect /\ IdleRedact /\ IdleSanitize /\ IdleEntry
    /\ IdleMerge /\ IdleRank /\ IdleFail /\ IdleSignal

\* lines 397-409
ParseRequest ==
    /\ pc = "start"
    /\ LET o == analyze_entry(event)
       IN  IF o.pc = "raised" THEN pc' = "crashed" /\ UNCHANGED response
           ELSE IF o.pc = "returned"
           THEN pc' = "done" /\ response' = ErrorResponse(o.statusCode)
           ELSE pc' = "download" /\ UNCHANGED response
    /\ UNCHANGED <<event, namelist, project_roots, proj_idx, loopVars, countVars,
                   metadata_list, calls, accepted, outcomes, detVars, redVars, sanVars, entVars, mrgVars, rankVars, failVars, sigVars>>

\* lines 417-418: s3_client.get_object
Download ==
    /\ pc = "download"
    /\ calls' = Append(calls, Call("get_object",
                   "uploads/" \o event.request_id \o "/" \o event.file_name, 0))
    /\ \E result \in {"ok", "ClientError", "Exception"} :
          IF result = "ok" THEN pc' = "unzip" /\ UNCHANGED response
          ELSE IF result = "ClientError" THEN pc' = "done" /\ response' = ErrorResponse(502)
          ELSE pc' = "done" /\ response' = ErrorResponse(500)
    /\ UNCHANGED <<event, namelist, project_roots, proj_idx, loopVars, countVars,
                   metadata_list, accepted, outcomes, detVars, redVars, sanVars, entVars, mrgVars, rankVars, failVars, sigVars>>

\* line 423 on an object that is no ZIP archive
BadZip ==
    /\ pc = "unzip"
    /\ pc' = "done"
    /\ response' = ErrorResponse(500)
    /\ UNCHANGED <<event, namelist, project_roots, proj_idx, loopVars, countVars,
                   metadata_list, calls, accepted, outcomes, detVars, redVars, sanVars, entVars, mrgVars, rankVars, failVars, sigVars>>

\* lines 423-436
Unzip ==
    /\ pc = "unzip"
    /\ \E names \in Archives(ArchiveListing, MaxNames) :
          /\ namelist' = names
          /\ project_roots' = detect_project_roots(
                 SelectSeq(names, LAMBDA n : ~EndsWith(n, "/") /\ ~should_skip_path(n)))
    /\ proj_idx' = 1
    /\ pc' = "project"
    /\ UNCHANGED <<event, loopVars, countVars, metadata_list, response, calls,
                   accepted, outcomes, detVars, redVars, sanVars, entVars, mrgVars, rankVars, failVars, sigVars>>

\* the loop over the projects is exhausted, or line 439 breaks out of it
ProjectsEnd ==
    /\ pc = "project"
    /\ proj_idx > Len(project_roots) \/ total_files_collected >= MAX_TOTAL_FILES
    /\ pc' = "merge"
    /\ UNCHANGED <<event, namelist, project_roots, proj_idx, loopVars, countVars,
                   metadata_list, response, calls, accepted, outcomes, detVars, redVars, sanVars, entVars, mrgVars, rankVars, failVars, sigVars>>

\* lines 464-466 without the global quota
ProjectLimit_PerProject(collected) == MAX_FILES_PER_PROJECT

\* lines 464-466
ProjectLimit(collected) == Min(MAX_FILES_PER_PROJECT, MAX_TOTAL_FILES - collected)

\* lines 443-466: the candidates of the next project, ranked
ProjectStart ==
    /\ pc = "project"
    /\ proj_idx <= Len(project_roots)
    /\ total_files_collected < MAX_TOTAL_FILES
    /\ \E order \in Orders(project_roots[proj_idx].files) :
          candidates' = SortByScore(SelectSeq(order, is_signal_path))
    /\ file_summaries' = <<>>
    /\ project_bytes' = 0
    /\ project_limit' = ProjectLimit(total_files_collected)
    /\ cand_idx' = 1
    /\ pc' = "file"
    /\ UNCHANGED <<event, namelist, project_roots, proj_idx, countVars,
                   metadata_list, response, calls, accepted, outcomes, detVars, redVars, sanVars, entVars, mrgVars, rankVars, failVars, sigVars>>

\* the loop of line 468 is exhausted, or line 469 breaks out of it
FilesEnd ==
    /\ pc = "file"
    /\ cand_idx > Min(Len(candidates), project_limit) \/ used_total_bytes >= MAX_TOTAL_BYTES
    /\ pc' = "analyze"
    /\ UNCHANGED <<event, namelist, project_roots, proj_idx, loopVars, countVars,
                   metadata_list, response, calls, accepted, outcomes, detVars, redVars, sanVars, entVars, mrgVars, rankVars, failVars, sigVars>>

\* line 472 raises (a corrupt archive member): the outer handler answers 500
ReadFails ==
    /\ pc = "file"
    /\ cand_idx <= Min(Len(candidates), project_limit)
    /\ used_total_bytes < MAX_TOTAL_BYTES
    /\ pc' = "done"
    /\ response' = ErrorResponse(500)
    /\ UNCHANGED <<event, namelist, project_roots, proj_idx, loopVars, countVars,
                   metadata_list, calls, accepted, outcomes, detVars, redVars, sanVars, entVars, mrgVars, rankVars, failVars, sigVars>>

\* lines 472-496: one candidate is read, sanitized, cut to the budget that
\* remains, and accepted
AcceptFile ==
    /\ pc = "file"
    /\ cand_idx <= Min(Len(candidates), project_limit)
    /\ used_total_bytes < MAX_TOTAL_BYTES
    /\ \E raw \in RawContents :
          LET name         == candidates[cand_idx]
              project_root == project_roots[proj_idx].root
              ext          == splitext(name)
              full         == strip_and_cap_bytes(raw, ext)
              over         == used_total_bytes + Utf8Len(full) > MAX_TOTAL_BYTES
              remain       == MAX_TOTAL_BYTES - used_total_bytes
              snippet      == IF over THEN CutBytes(full, remain) \o TRUNCATED_MARKER ELSE full
              size         == Utf8Len(snippet)
          IN  IF over /\ remain <= 0
              THEN /\ pc' = "analyze"
                   /\ UNCHANGED <<cand_idx, file_summaries, project_bytes, countVars, accepted>>
              ELSE /\ file_summaries' = Append(file_summaries,
                          [path |-> RelPath(project_root, name),
                           languageHint |-> LStripDot(ext),
                           content |-> snippet])
                   /\ project_bytes' = project_bytes + size
                   /\ used_total_bytes' = used_total_bytes + size
                   /\ total_files_collected' = total_files_collected + 1
                   /\ cand_idx' = cand_idx + 1
                   /\ accepted' = Append(accepted,
                          [root |-> project_root, name |-> name, size |-> size,
                           full |-> full, content |-> snippet,
                           remain |-> remain, truncated |-> over])
                   /\ pc' = "file"
    /\ UNCHANGED <<event, namelist, project_roots, proj_idx, candidates, project_limit,
                   metadata_list, response, calls, outcomes, detVars, redVars, sanVars, entVars, mrgVars, rankVars, failVars, sigVars>>

FAILURES == {"ValueError", "TypeError", "JSONDecodeError", "ClientError", "Exception"}

\* a failed analysis leaves the loop over the projects
NextProject_Abort(result) ==
    /\ outcomes' = Append(outcomes, [root |-> project_roots[proj_idx].root, result |-> result])
    /\ proj_idx' = proj_idx + 1
    /\ pc' = IF result \in FAILURES THEN "merge" ELSE "project"

\* the project is done but the loop does not move on to the next one
NextProject_Repeat(result) ==
    /\ outcomes' = Append(outcomes, [root |-> project_roots[proj_idx].root, result |-> result])
    /\ proj_idx' = proj_idx
    /\ pc' = "project"

\* the project is done: line 523 after a success, the continue of line 529
\* after a caught exception, the end of the loop body without files
NextProject(result) ==
    /\ outcomes' = Append(outcomes, [root |-> project_roots[proj_idx].root, result |-> result])
    /\ proj_idx' = proj_idx + 1
    /\ pc' = "project"

\* line 501: no file was accepted for the project
NoFiles ==
    /\ pc = "analyze"
    /\ file_summaries = <<>>
    /\ NextProject("no_files")
    /\ UNCHANGED <<event, namelist, project_roots, loopVars, countVars,
                   metadata_list, response, calls, accepted, detVars, redVars, sanVars, entVars, mrgVars, rankVars, failVars, sigVars>>

PayloadOf(i) ==
    payload_bytes(file_summaries, ProjectName(project_roots[i].root), project_roots[i].root)

\* lines 319-320: safe_invoke_bedrock raises before the call; caught at 526
PayloadTooLarge ==
    /\ pc = "analyze"
    /\ file_summaries # <<>>
    /\ too_large(PayloadOf(proj_idx))
    /\ NextProject("ValueError")
    /\ UNCHANGED <<event, namelist, project_roots, loopVars, countVars,
                   metadata_list, response, calls, accepted, detVars, redVars, sanVars, entVars, mrgVars, rankVars, failVars, sigVars>>

\* lines 322-529: bedrock.converse is called; its answer is parsed and
\* appended, or the exception is caught and the project is skipped
Invoke ==
    /\ pc = "analyze"
    /\ file_summaries # <<>>
    /\ ~too_large(PayloadOf(proj_idx))
    /\ calls' = Append(calls, Call("converse", project_roots[proj_idx].root, PayloadOf(proj_idx)))
    /\ \E answer \in {[result |-> ParseAnswer(a), aws |-> ParsedAws(a)] : a \in LlmAnswers}
                          \cup {[result |-> e, aws |-> <<>>] : e \in {"ClientError", "Exception"}} :
          /\ metadata_list' =
                 IF answer.result = "success"
                 THEN Append(metadata_list,
                          [projectName |-> ProjectName(project_roots[proj_idx].root),
                           projectRoot |-> project_roots[proj_idx].root,
                           services |-> <<>>, aws |-> answer.aws, external |-> <<>>,
                           deployment |-> [present |-> FALSE, fields |-> <<>>],
                           findings |-> <<>>])
                 ELSE metadata_list
          /\ NextProject(answer.result)
    /\ UNCHANGED <<event, namelist, project_roots, loopVars, countVars,
                   response, accepted, detVars, redVars, sanVars, entVars, mrgVars, rankVars, failVars, sigVars>>

\* metadata_list[0] is read without the test of line 532
RespondEmpty_Unchecked ==
    /\ pc = "merge"
    /\ metadata_list = <<>>
    /\ response' = ErrorResponse(500)
    /\ pc' = "done"
    /\ UNCHANGED <<event, namelist, project_roots, proj_idx, loopVars, countVars,
                   metadata_list, calls, accepted, outcomes, detVars, redVars, sanVars, entVars, mrgVars, rankVars, failVars, sigVars>>

\* lines 555-567: nothing to merge
RespondEmpty ==
    /\ pc = "merge"
    /\ metadata_list = <<>>
    /\ response' = Respond(200)
    /\ pc' = "done"
    /\ UNCHANGED <<event, namelist, project_roots, proj_idx, loopVars, countVars,
                   metadata_list, calls, accepted, outcomes, detVars, redVars, sanVars, entVars, mrgVars, rankVars, failVars, sigVars>>

\* lines 532-567: the documents are merged and the result is written, then
\* the response is returned; a merge that raises is answered with 500, a
\* failing put_object with 502 or 500
StoreAndRespond ==
    /\ pc = "merge"
    /\ metadata_list # <<>>
    /\ IF final_metadata(metadata_list).kind = "raised"
       THEN /\ response' = ErrorResponse(500)
            /\ UNCHANGED calls
       ELSE /\ calls' = Append(calls, Call("put_object",
                           "results/" \o event.request_id \o "/metadata.json", 0))
            /\ \E result \in {"ok", "ClientError", "Exception"} :
                  response' = IF result = "ok" THEN Respond(200)
                              ELSE IF result = "ClientError" THEN ErrorResponse(502)
                              ELSE ErrorResponse(500)
    /\ pc' = "done"
    /\ UNCHANGED <<event, namelist, project_roots, proj_idx, loopVars, countVars,
                   metadata_list, accepted, outcomes, detVars, redVars, sanVars, entVars, mrgVars, rankVars, failVars, sigVars>>

Next ==
    \/ ParseRequest
    \/ Download
    \/ BadZip
    \/ Unzip
    \/ ProjectsEnd
    \/ ProjectStart
    \/ FilesEnd
    \/ ReadFails
    \/ AcceptFile
    \/ NoFiles
    \/ PayloadTooLarge
    \/ Invoke
    \/ RespondEmpty
    \/ StoreAndRespond

Spec == Init /\ [][Next]_vars

(***************************************************************************)
(* The entry points up to their first external call                        *)
(***************************************************************************)
ENTRY_POINTS ==
    {"code-analysis", "survey-lambda", "download-lambda", "git-action",
     "get-action-lambda", "create-cloud-cli", "terraform"}

InitEntry ==
    /\ ent_name \in ENTRY_POINTS
    /\ ent_event \in EntryEvents
    /\ ent_pc = "start"
    /\ ent_status = 0
    /\ ent_calls = <<>>
    /\ IdleDetect /\ IdleRedact /\ IdleSanitize /\ IdleHandler
    /\ IdleMerge /\ IdleRank /\ IdleFail /\ IdleSignal

Enter(name, o) ==
    /\ ent_pc = "start"
    /\ ent_name = name
    /\ ent_pc' = o.pc
    /\ ent_status' = o.statusCode
    /\ ent_calls' = o.calls
    /\ UNCHANGED <<ent_name, ent_event, detVars, redVars, sanVars, hVars,
                   mrgVars, rankVars, failVars, sigVars>>

EnterAnalyze == Enter("code-analysis", analyze_entry(ent_event))

EnterSurvey == Enter("survey-lambda", survey_entry(ent_event))

EnterDownload == Enter("download-lambda", download_entry(ent_event))

EnterGitAction == Enter("git-action", git_action_entry(ent_event))

EnterGetAction == Enter("get-action-lambda", get_action_entry(ent_event))

EnterCreateCli == Enter("create-cloud-cli", create_cli_entry(ent_event))

EnterTerraform == Enter("terraform", terraform_entry(ent_event))

NextEntry ==
    \/ EnterAnalyze
    \/ EnterSurvey
    \/ EnterDownload
    \/ EnterGitAction
    \/ EnterGetAction
    \/ EnterCreateCli
    \/ EnterTerraform

SpecEntry == InitEntry /\ [][NextEntry]_vars

(***************************************************************************)
(* Bounded inputs of the merge step: the documents of up to MaxDocs        *)
(* projects analyzed with success                                          *)
(***************************************************************************)
MaxDocs == 3

\* name and root of the projects, in analysis order
ProjectAt == <<[name |-> "app", root |-> "app"], [name |-> "infra", root |-> "infra"],
               [name |-> "api", root |-> "svc/api"], [name |-> "web", root |-> "web"]>>

\* services, external resources and findings of a document
DocBodies ==
    {[services |-> <<>>, external |-> <<>>, findings |-> <<>>],
     [services |-> << <<<<"name", "web">>, <<"language", "js">>>>, <<<<"language", "go">>>> >>,
      external |-> <<"stripe", "auth0">>,
      findings |-> << <<<<"type", "risk">>, <<"message", "m">>>> >>]}

AwsChoices ==
    {<<>>,
     << <<"ec2", StrVal("")>> >>,
     << <<"ec2", StrVal("t3")>> >>,
     << <<"ec2", DictVal(<< <<"type", "a">> >>)>> >>,
     << <<"ec2", DictVal(<< <<"type", "b">>, <<"size", "c">> >>)>>, <<"s3", StrVal("b")>> >>}

DeploymentChoices ==
    {[present |-> FALSE, fields |-> <<>>],
     [present |-> TRUE, fields |-> <<>>],
     [present |-> TRUE, fields |-> << <<"buildTool", "maven">> >>],
     [present |-> TRUE, fields |-> << <<"buildTool", "gradle">>, <<"terraformHints", "h1">> >>],
     [present |-> TRUE, fields |-> << <<"terraformHints", "h2">> >>]}

DocsAt(j) ==
    {[projectName |-> ProjectAt[j].name, projectRoot |-> ProjectAt[j].root,
      services |-> b.services, aws |-> a, external |-> b.external,
      deployment |-> d, findings |-> b.findings] :
        b \in DocBodies, a \in AwsChoices, d \in DeploymentChoices}

RECURSIVE DocLists(_)
DocLists(n) ==
    IF n = 0 THEN {<<>>}
    ELSE {Append(q, x) : q \in DocLists(n - 1), x \in DocsAt(n)}

InitMerge ==
    /\ \E n \in 1..MaxDocs : mrg_in \in DocLists(n)
    /\ mrg_after = <<>>
    /\ mrg_out = <<>>
    /\ mrg_pc = "input"
    /\ IdleDetect /\ IdleRedact /\ IdleSanitize /\ IdleHandler /\ IdleEntry
    /\ IdleRank /\ IdleFail /\ IdleSignal

\* lines 532-538
Merge ==
    /\ mrg_pc = "input"
    /\ LET r == final_metadata(mrg_in)
       IN  /\ mrg_out' = [kind |-> r.kind, document |-> r.document, merged |-> r.merged]
           /\ mrg_after' = r.after
           /\ mrg_pc' = IF r.kind = "raised" THEN "raised" ELSE "done"
    /\ UNCHANGED <<mrg_in, detVars, redVars, sanVars, hVars, entVars, rankVars, failVars, sigVars>>

NextMerge == Merge

SpecMerge == InitMerge /\ [][NextMerge]_vars

(***************************************************************************)
(* The priority sort on its own: the signal files of a project, in any     *)
(* order, ranked as lines 449-460 rank them                                *)
(***************************************************************************)
MaxRanked == 4

RankUniverse ==
    {"main.tf", "Dockerfile", "package.json", "application.yml", "README.md",
     "k8s/deploy.yaml", "prod.tfvars.json", "docker/README.md"}

InitRank ==
    /\ rank_in \in {q \in PathLists(RankUniverse, MaxRanked) : \A i \in 1..Len(q) : is_signal_path(q[i])}
    /\ rank_out = <<>>
    /\ rank_pc = "input"
    /\ IdleDetect /\ IdleRedact /\ IdleSanitize /\ IdleHandler /\ IdleEntry
    /\ IdleMerge /\ IdleFail /\ IdleSignal

\* line 460
Rank ==
    /\ rank_pc = "input"
    /\ rank_out' = SortByScore(rank_in)
    /\ rank_pc' = "done"
    /\ UNCHANGED <<rank_in, detVars, redVars, sanVars, hVars, entVars, mrgVars, failVars, sigVars>>

NextRank == Rank

SpecRank == InitRank /\ [][NextRank]_vars

(***************************************************************************)
(* Failure of a storage or inference call in a handler.  An exception is   *)
(* its class, the Code and Message of a provider error (Message "" when    *)
(* the provider gave none) and its str().  A response is its status and    *)
(* the error field of its body; NoneValue is Python's None.  The error     *)
(* slice is scaled down with the messages.                                 *)
(***************************************************************************)
SAFE_ERROR_SLICE == 24

NoneValue == "None"

DEBUG_ON == {"1", "true", "yes", "on"}

\* event is the query-string parameters: a dict with its debug value ("" when
\* there is none), or a value with no get method
is_debug_mode(env, qs) ==
    LET env_debug == Lower(env) \in DEBUG_ON
        qs_debug  == IF qs.isdict THEN Lower(qs.debug) \in DEBUG_ON ELSE FALSE
    IN  env_debug \/ qs_debug

Slice(str, n) == SubSeq(str, 1, Min(Len(str), n))

NoError == [present |-> FALSE, type |-> "", code |-> "", message |-> ""]

Response(status, error) == [kind |-> "response", statusCode |-> status, error |-> error]

build_error_response(status, exc, debug) ==
    IF exc.class = "ClientError"
    THEN Response(status,
             [present |-> TRUE, type |-> "AWS.ClientError", code |-> exc.code,
              message |-> IF debug
                          THEN (IF exc.message # "" THEN Slice(exc.message, SAFE_ERROR_SLICE)
                                ELSE NoneValue)
                          ELSE exc.code])
    ELSE IF debug
    THEN Response(status,
             [present |-> TRUE, type |-> exc.class, code |-> "",
              message |-> Slice(exc.str, SAFE_ERROR_SLICE)])
    ELSE Response(status, NoError)

\* the body {"error": str(e)} of the other handlers
ErrorText(exc) == [present |-> TRUE, type |-> "", code |-> "", message |-> exc.str]

FAIL_HANDLERS ==
    {"code-analysis", "git-action", "survey-lambda", "get-action-lambda", "terraform-aws"}

FAIL_EXCEPTIONS ==
    {[class |-> "ClientError", code |-> "NoSuchKey",
      message |-> "The specified key does not exist.",
      str |-> "An error occurred (NoSuchKey) when calling the GetObject operation: The specified key does not exist."],
     [class |-> "ClientError", code |-> "ThrottlingException", message |-> "",
      str |-> "An error occurred (ThrottlingException) when calling the InvokeModel operation: Unknown"],
     [class |-> "BadZipFile", code |-> "", message |-> "", str |-> "File is not a zip file"],
     [class |-> "EndpointConnectionError", code |-> "", message |-> "",
      str |-> "Could not connect to the endpoint URL: \"https://s3.ap-northeast-2.amazonaws.com/\""]}

FAIL_ENVS == {"", "1", "TRUE", "off"}

FAIL_QUERIES ==
    {NoQuery, [isdict |-> TRUE, debug |-> "Yes"], [isdict |-> TRUE, debug |-> "0"],
     [isdict |-> FALSE, debug |-> ""]}

InitFail ==
    /\ fail_name \in FAIL_HANDLERS
    /\ fail_exc \in FAIL_EXCEPTIONS
    /\ fail_env \in FAIL_ENVS
    /\ fail_qs \in FAIL_QUERIES
    /\ fail_pc = "failed"
    /\ fail_response = <<>>
    /\ IdleDetect /\ IdleRedact /\ IdleSanitize /\ IdleHandler /\ IdleEntry
    /\ IdleMerge /\ IdleRank /\ IdleSignal

Failed(name, answer) ==
    /\ fail_pc = "failed"
    /\ fail_name = name
    /\ fail_response' = answer
    /\ fail_pc' = "done"
    /\ UNCHANGED <<fail_name, fail_exc, fail_env, fail_qs,
                   detVars, redVars, sanVars, hVars, entVars, mrgVars, rankVars, sigVars>>

\* code-analysis.py lines 395, 569-574
FailAnalysis ==
    LET debug == is_debug_mode(fail_env, fail_qs)
    IN  Failed("code-analysis",
               IF fail_exc.class = "ClientError"
               THEN build_error_response(502, fail_exc, debug)
               ELSE build_error_response(500, fail_exc, debug))

\* git-action.py lines 55-57
FailGitAction == Failed("git-action", Response(500, ErrorText(fail_exc)))

\* survey-lambda.py lines 113-122
FailSurvey == Failed("survey-lambda", Response(500, ErrorText(fail_exc)))

\* get-action-lambda.py lines 49-55
FailGetAction == Failed("get-action-lambda", Response(500, ErrorText(fail_exc)))

\* terraform-aws.py lines 96-98: the exception is raised again
FailTerraform ==
    Failed("terraform-aws", [kind |-> "raised", statusCode |-> 0, error |-> NoError])

NextFail == FailAnalysis \/ FailGitAction \/ FailSurvey \/ FailGetAction \/ FailTerraform

SpecFail == InitFail /\ [][NextFail]_vars

(***************************************************************************)
(* The two classifications of a file: signal file (candidate for the       *)
(* prompt) and root marker (its directory is a project root)               *)
(***************************************************************************)
SignalDirs == {"", "app/", "docs/", ".github/workflows/", "src/main/resources/"}

SignalNames ==
    PROJECT_ROOT_MARKERS \cup SIGNAL_BASENAMES \cup
    {"README.md", "application.yml", "variables.tf", "Dockerfile.dev", "index.js", "notes.txt"}

InitSignal ==
    /\ sig_path \in {d \o b : d \in SignalDirs, b \in SignalNames}
    /\ sig_signal = FALSE
    /\ sig_marker = FALSE
    /\ sig_pc = "input"
    /\ IdleDetect /\ IdleRedact /\ IdleSanitize /\ IdleHandler /\ IdleEntry
    /\ IdleMerge /\ IdleRank /\ IdleFail

\* lines 245-246 and 447
Classify ==
    /\ sig_pc = "input"
    /\ sig_signal' = is_signal_path(sig_path)
    /\ sig_marker' = (basename(sig_path) \in PROJECT_ROOT_MARKERS)
    /\ sig_pc' = "done"
    /\ UNCHANGED <<sig_path, detVars, redVars, sanVars, hVars, entVars, mrgVars, rankVars, failVars>>

NextSignal == Classify

SpecSignal == InitSignal /\ [][NextSignal]_vars

(***************************************************************************)
(* Claims about the project detector                                       *)
(***************************************************************************)
\* number of path segments of a root; the sentinel "." has none
SegCount(r) == IF r = "." THEN 0 ELSE Len(SplitSlash(r))

IsPathPrefix(r, p) == r = "." \/ StartsWith(p, r \o "/") \/ p = r

RegisteredSet(paths) == {RegisteredRoots(paths)[i].root : i \in 1..Len(RegisteredRoots(paths))}

PrefixRoots(paths, p) == {r \in RegisteredSet(paths) : IsPathPrefix(r, p)}

IsDeepestPrefixRoot(paths, p, r) ==
    /\ r \in PrefixRoots(paths, p)
    /\ \A q \in PrefixRoots(paths, p) : SegCount(q) <= SegCount(r)

QualifyingPaths(paths) == {paths[i] : i \in {k \in 1..Len(paths) : Qualifies(paths[k])}}

RootsHolding(roots, p) == {i \in 1..Len(roots) : p \in roots[i].files}

\* C1: every non-skipped, non-directory path of the input is in the file set
\* of exactly one returned root, and that root is the deepest registered root
\* that is a path-prefix of the path.
C1_DeepestRootPartition ==
    det_pc = "done" =>
        \A p \in QualifyingPaths(det_paths) :
            /\ Cardinality(RootsHolding(det_roots, p)) = 1
            /\ \A i \in RootsHolding(det_roots, p) :
                   IsDeepestPrefixRoot(det_paths, p, det_roots[i].root)

\* the input paths that are neither skipped nor directories
Eligible(paths) ==
    {paths[i] : i \in {k \in 1..Len(paths) :
                          ~should_skip_path(paths[k]) /\ ~EndsWith(paths[k], "/")}}

\* the directories of the marker files
MarkerDirs(paths) ==
    {dirname(p) : p \in {q \in Eligible(paths) : basename(q) \in PROJECT_ROOT_MARKERS}}

\* two or more directories with the same parent
Siblings(dirs) ==
    /\ Cardinality(dirs) >= 2
    /\ "" \notin dirs
    /\ \A d, e \in dirs : dirname(d) = dirname(e)

\* C18: when the marker files lie in distinct sibling directories, the
\* roots returned are those directories, one root each, and the file set of
\* a root is the set of the eligible paths under its directory.
C18_OneRootPerSiblingDirectory ==
    (det_pc = "done" /\ Siblings(MarkerDirs(det_paths))) =>
        /\ Len(det_roots) = Cardinality(MarkerDirs(det_paths))
        /\ {det_roots[i].root : i \in 1..Len(det_roots)} = MarkerDirs(det_paths)
        /\ \A i \in 1..Len(det_roots) :
               det_roots[i].files =
                   {p \in Eligible(det_paths) : StartsWith(p, det_roots[i].root \o "/")}

C18_Witness ==
    /\ det_pc = "done"
    /\ det_paths = <<"app/package.json", "app/src/index.js", "infra/main.tf", "infra/variables.tf">>
    /\ det_roots = <<[root |-> "app", files |-> {"app/package.json", "app/src/index.js"}],
                     [root |-> "infra", files |-> {"infra/main.tf", "infra/variables.tf"}]>>

\* C23: when no eligible path has the basename of a root marker, the
\* detector returns the one root ".", whose file set is the set of all the
\* eligible paths, and the empty mapping when there is no eligible path.
C23_SentinelRootHoldsAll ==
    (det_pc = "done" /\ MarkerDirs(det_paths) = {}) =>
        IF Eligible(det_paths) = {} THEN det_roots = <<>>
        ELSE det_roots = <<[root |-> ".", files |-> Eligible(det_paths)]>>

C23_Witness ==
    /\ det_pc = "done"
    /\ det_paths = <<"app/src/index.js", "app/._main.tf", "README.md", "infra/variables.tf">>
    /\ det_roots = <<[root |-> ".",
                      files |-> {"app/src/index.js", "README.md", "infra/variables.tf"}]>>

\* a directory segment of the path is in the skip set, or its basename
\* begins with "._"
SkipQualifying(p) ==
    LET parts == SplitSlash(p)
    IN  \/ \E i \in 1..(Len(parts) - 1) : parts[i] \in SKIP_DIRS
        \/ StartsWith(parts[Len(parts)], "._")

\* C25: every root returned has a non-empty file set, and every path of a
\* file set is an input path that is neither skip-qualifying nor
\* directory-like.
C25_RootsNonEmptyAndEligible ==
    det_pc = "done" =>
        \A i \in 1..Len(det_roots) :
            /\ det_roots[i].files # {}
            /\ det_roots[i].files \subseteq Eligible(det_paths)
            /\ \A p \in det_roots[i].files : ~SkipQualifying(p) /\ ~EndsWith(p, "/")

C25_Witness ==
    /\ det_pc = "done"
    /\ det_paths = <<"app/package.json", "app/._main.tf", "node_modules/x/package.json", "app/">>
    /\ det_roots = <<[root |-> "app", files |-> {"app/package.json"}]>>

\* the mapping as a set of <<root, file set>> pairs
AsMapping(roots) == {<<roots[i].root, roots[i].files>> : i \in 1..Len(roots)}

Reorderings(q) == {r \in PathLists({q[i] : i \in 1..Len(q)}, Len(q)) : Len(r) = Len(q)}

\* C26: the detector returns the same roots with the same file sets for a
\* path list and for every permutation of it.
C26_OrderIndependent ==
    det_pc = "done" =>
        \A r \in Reorderings(det_paths) :
            AsMapping(detect_project_roots(r)) = AsMapping(det_roots)

(***************************************************************************)
(* Claims about the content sanitizer                                      *)
(***************************************************************************)
\* C3: the UTF-8 length of the text returned by strip_and_cap_bytes is at
\* most MAX_BYTES_PER_FILE, also when the truncation marker was appended.
C3_SanitizedWithinFileCap ==
    san_pc = "done" => Utf8Len(san_out) <= MAX_BYTES_PER_FILE

\* the key of a line: the text before its first "=" or ":"
KeyPortion(line) == SubSeq(line, 1, FirstIn(line, 1, {"=", ":"}) - 1)

\* C4: a line whose key holds a sensitive-key substring comes out as its key
\* followed by the redaction marker only; nothing of the text after the
\* key's separator survives, also when the line has both ":" and "=".
C4_ValueNeverSurvives ==
    red_pc = "done" =>
        \A i \in 1..Len(splitlines(red_text)) :
            LET line == splitlines(red_text)[i]
                out  == splitlines(red_out)[i]
            IN  (HasSensitiveKey(KeyPortion(line)) /\ Len(KeyPortion(line)) < Len(line)) =>
                    \/ out = KeyPortion(line) \o Chars("=***REDACTED***")
                    \/ out = KeyPortion(line) \o Chars(": ***REDACTED***")

(***************************************************************************)
(* Claims about the analysis handler                                       *)
(***************************************************************************)
\* C2: the number of accepted files is at most MAX_TOTAL_FILES, the bytes
\* accepted are at most MAX_TOTAL_BYTES, and a truncated file is no larger
\* than the budget that remained before it.
C2_WithinGlobalCaps ==
    /\ total_files_collected <= MAX_TOTAL_FILES
    /\ used_total_bytes <= MAX_TOTAL_BYTES
    /\ \A i \in 1..Len(accepted) :
           accepted[i].truncated => accepted[i].size <= accepted[i].remain

MetaRoots(list) == [i \in 1..Len(list) |-> list[i].projectRoot]

SuccessRoots(results) ==
    LET ok == SelectSeq(results, LAMBDA o : o.result = "success")
    IN  [i \in 1..Len(ok) |-> ok[i].root]

\* C5: the metadata to merge are those of the projects analyzed with
\* success, in iteration order; a failed project is left out and nothing
\* else is; the projects are visited one after the other without a gap, and
\* the loop ends only when the projects are exhausted or the global file
\* cap is reached, never because an analysis failed.
C5_FailureSkipsOnlyThatProject ==
    /\ MetaRoots(metadata_list) = SuccessRoots(outcomes)
    /\ \A i \in 1..Len(outcomes) : outcomes[i].root = project_roots[i].root
    /\ pc \in {"project", "file", "analyze"} => Len(outcomes) = proj_idx - 1
    /\ pc = "merge" =>
           \/ Len(outcomes) = Len(project_roots)
           \/ total_files_collected >= MAX_TOTAL_FILES

C5_Witness ==
    /\ pc = "merge"
    /\ \E i, j, k \in 1..Len(outcomes) :
           /\ i < j /\ j < k
           /\ outcomes[i].result = "success"
           /\ outcomes[j].result \in FAILURES
           /\ outcomes[k].result = "success"
    /\ Len(metadata_list) = 2

\* C6: when the merge step is reached without any analyzed project, the
\* handler returns 200 with projectsAnalyzed = 0 and writes no document.
C6_NoResultsIsSuccess ==
    [][(pc = "merge" /\ \A i \in 1..Len(outcomes) : outcomes[i].result # "success") =>
          /\ pc' = "done"
          /\ response'.statusCode = 200
          /\ response'.projectsAnalyzed = 0
          /\ \A i \in 1..Len(calls') : calls'[i].op # "put_object"]_vars

C6_Witness ==
    /\ pc = "done"
    /\ response.statusCode = 200
    /\ response.projectsAnalyzed = 0
    /\ \E i, j \in 1..Len(outcomes) :
           outcomes[i].result \in FAILURES /\ outcomes[j].result = "no_files"

ConverseCalls == {i \in 1..Len(calls) : calls[i].op = "converse"}

\* C8: no call of the inference service carries more than
\* PAYLOAD_SOFT_CAP_BYTES serialized bytes; a project whose request is
\* larger is given up without any call, and no project is sent twice.
C8_NoOversizedInvocation ==
    /\ \A i \in ConverseCalls : calls[i].bytes <= PAYLOAD_SOFT_CAP_BYTES
    /\ \A i \in 1..Len(outcomes) :
           outcomes[i].result = "ValueError" =>
               \A j \in ConverseCalls : calls[j].key # outcomes[i].root
    /\ \A i, j \in ConverseCalls : calls[i].key = calls[j].key => i = j

C8_Witness ==
    /\ pc = "done"
    /\ \E i, j \in 1..Len(outcomes) :
           i < j /\ outcomes[i].result = "ValueError" /\ outcomes[j].result = "success"

\* position of a name in the archive's name list
Pos(names, n) == CHOOSE i \in 1..Len(names) : names[i] = n

\* C9: the candidates of a project are processed by descending score, and
\* candidates of equal score in the order of the archive's name list.
C9_RankedThenArchiveOrder ==
    pc \in {"file", "analyze"} =>
        \A i, j \in 1..Len(candidates) :
            i < j =>
                \/ score(candidates[i]) > score(candidates[j])
                \/ /\ score(candidates[i]) = score(candidates[j])
                   /\ Pos(namelist, candidates[i]) < Pos(namelist, candidates[j])

\* the part of a truncated snippet before the marker
Kept(a) == SubSeq(a.content, 1, Len(a.content) - Len(TRUNCATED_MARKER))

IsTextPrefix(t, u) == Len(t) <= Len(u) /\ SubSeq(u, 1, Len(t)) = t

\* a file accepted over the budget is a prefix of the sanitized text plus the
\* marker, and it is the last file accepted
CutAndLast(i) ==
    LET a == accepted[i]
    IN  /\ a.content = Kept(a) \o TRUNCATED_MARKER
        /\ IsTextPrefix(Kept(a), a.full)
        /\ i = Len(accepted)

\* C10 as stated: the prefix kept fills exactly the budget that remained.
C10_FillsExactlyTheRemainder ==
    \A i \in 1..Len(accepted) :
        accepted[i].truncated =>
            CutAndLast(i) /\ Utf8Len(Kept(accepted[i])) = accepted[i].remain

\* C10 amended: the prefix kept is the longest prefix of whole characters
\* that fits in the budget that remained; a file accepted within the budget
\* is kept in full.
C10_FillsWithWholeCharacters ==
    \A i \in 1..Len(accepted) :
        LET a == accepted[i]
        IN  IF a.truncated
            THEN /\ CutAndLast(i)
                 /\ Utf8Len(Kept(a)) <= a.remain
                 /\ Len(Kept(a)) < Len(a.full)
                 /\ Utf8Len(Kept(a)) + ByteLen(a.full[Len(Kept(a)) + 1]) > a.remain
            ELSE a.content = a.full

C10_Witness ==
    /\ pc = "done"
    /\ response.statusCode = 200
    /\ \E i \in 1..Len(accepted) :
           /\ accepted[i].truncated
           /\ Utf8Len(Kept(accepted[i])) < accepted[i].remain
    /\ \E i \in 1..Len(outcomes) :
           /\ outcomes[i].result = "no_files"
           /\ outcomes[i].root # accepted[Len(accepted)].root

(***************************************************************************)
(* Claims about the entry points                                           *)
(***************************************************************************)
\* the fields an entry point reads and needs
RequiredFields(name) ==
    IF name = "code-analysis" THEN {"request_id", "file_name"}
    ELSE IF name \in {"survey-lambda", "terraform"} THEN {"request_id", "survey"}
    ELSE IF name = "git-action" THEN {"request_id", "cloud"}
    ELSE {"request_id"}

ReadsCloud(name) ==
    name \in {"download-lambda", "git-action", "get-action-lambda", "create-cloud-cli"}

InvalidRequest(name, e) ==
    \/ \E f \in RequiredFields(name) : e[f] = ""
    \/ ReadsCloud(name) /\ e.cloud # "" /\ Lower(e.cloud) \notin VALID_CLOUDS

\* C7: an entry point answers a request that lacks a field it needs, or
\* that names a cloud other than aws, azure and gcp, with status 400 and
\* without having made an external call.
C7_InvalidRequestRejected ==
    (ent_pc \notin {"idle", "start"} /\ InvalidRequest(ent_name, ent_event)) =>
        ent_pc = "returned" /\ ent_status = 400 /\ ent_calls = <<>>

(***************************************************************************)
(* Claims about the metadata merger                                        *)
(***************************************************************************)
\* the call of merge_metadata has returned a merged document
MergeReturned == mrg_pc = "done" /\ mrg_out.kind = "merged"

\* C11: the projects list of the document merge_metadata returns for two
\* or more documents has one entry per document, in the order of the
\* documents, each with the projectName and the projectRoot of its document.
C11_OneProjectEntryPerDocument ==
    MergeReturned =>
        /\ Len(mrg_in) >= 2
        /\ Len(mrg_out.merged.projects) = Len(mrg_in)
        /\ \A i \in 1..Len(mrg_in) :
               /\ mrg_out.merged.projects[i].name = mrg_in[i].projectName
               /\ mrg_out.merged.projects[i].root = mrg_in[i].projectRoot

C11_Witness ==
    /\ MergeReturned
    /\ Len(mrg_in) = 3
    /\ mrg_out.merged.projects[3].name = "api"
    /\ mrg_out.merged.projects[3].root = "svc/api"

\* the services of the documents, in document order then service order,
\* each with the name of its project
RECURSIVE OriginServices(_)
OriginServices(docs) ==
    IF Len(docs) = 0 THEN <<>>
    ELSE LET d == docs[Len(docs)]
         IN  OriginServices(SubSeq(docs, 1, Len(docs) - 1)) \o
             [i \in 1..Len(d.services) |-> [project |-> d.projectName, svc |-> d.services[i]]]

\* the fields of a service but its name and its project
OtherFields(svc) == {svc[i] : i \in {k \in 1..Len(svc) : svc[k][1] \notin {"name", "project"}}}

\* C12: the services of the merged document are the services of the
\* documents, in document order then service order, none dropped and none
\* twice; each has a project field naming its project, its name prefixed by
\* "<projectName>/", and its other fields as they were.
C12_EveryServicePrefixedOnce ==
    MergeReturned =>
        LET origin == OriginServices(mrg_in)
            merged == mrg_out.merged.services
        IN  /\ Len(merged) = Len(origin)
            /\ \A i \in 1..Len(origin) :
                   /\ HasKey(merged[i], "project")
                   /\ Get(merged[i], "project") = origin[i].project
                   /\ HasKey(merged[i], "name") = HasKey(origin[i].svc, "name")
                   /\ HasKey(origin[i].svc, "name") =>
                          Get(merged[i], "name") =
                              origin[i].project \o "/" \o Get(origin[i].svc, "name")
                   /\ OtherFields(merged[i]) = OtherFields(origin[i].svc)

C12_Witness ==
    /\ MergeReturned
    /\ Len(mrg_out.merged.services) = 4
    /\ Get(mrg_out.merged.services[1], "name") = "app/web"
    /\ Get(mrg_out.merged.services[3], "name") = "api/web"
    /\ ~HasKey(mrg_out.merged.services[4], "name")
    /\ Get(mrg_out.merged.services[4], "project") = "api"

\* C13: the merge step of one document gives that document itself, with no
\* key added or altered, and leaves it as it was.
C13_SingleDocumentPassthrough ==
    (mrg_pc \in {"done", "raised"} /\ Len(mrg_in) = 1) =>
        /\ mrg_pc = "done"
        /\ mrg_out.kind = "document"
        /\ mrg_out.document = mrg_in[1]
        /\ mrg_after = mrg_in

C13_Witness ==
    /\ mrg_pc = "done"
    /\ Len(mrg_in) = 1
    /\ mrg_out.kind = "document"
    /\ Len(mrg_out.document.services) = 2
    /\ HasKey(mrg_out.document.aws, "s3")
    /\ HasKey(mrg_out.document.deployment.fields, "terraformHints")

\* the documents that give a non-empty value for a key of infrastructure.aws
Givers(docs, key) ==
    {j \in 1..Len(docs) : HasKey(docs[j].aws, key) /\ Truthy(Get(docs[j].aws, key))}

Earliest(S) == CHOOSE x \in S : \A y \in S : x <= y

AwsKeys(docs) == UNION {{docs[j].aws[i][1] : i \in 1..Len(docs[j].aws)} : j \in 1..Len(docs)}

\* C14: a key of the merged infrastructure.aws has the first non-empty
\* value the documents give for it; when that value is a dict, the dicts the
\* later documents give are merged in key by key, and a sub-key keeps the
\* value of the earliest document that has it.
C14_FirstValueWins ==
    MergeReturned =>
        \A key \in AwsKeys(mrg_in) :
            LET givers == Givers(mrg_in, key)
                merged == mrg_out.merged.aws
            IN  IF givers = {} THEN ~HasKey(merged, key)
                ELSE LET first == Get(mrg_in[Earliest(givers)].aws, key)
                         dicts == {j \in givers : Get(mrg_in[j].aws, key).kind = "dict"}
                     IN  /\ HasKey(merged, key)
                         /\ first.kind = "str" => Get(merged, key) = first
                         /\ first.kind = "dict" =>
                                /\ Get(merged, key).kind = "dict"
                                /\ \A j \in dicts :
                                       LET d == Get(mrg_in[j].aws, key).dict
                                       IN  \A i \in 1..Len(d) :
                                               LET sub     == d[i][1]
                                                   holders == {h \in dicts :
                                                                  HasKey(Get(mrg_in[h].aws, key).dict, sub)}
                                               IN  /\ HasKey(Get(merged, key).dict, sub)
                                                   /\ Get(Get(merged, key).dict, sub) =
                                                          Get(Get(mrg_in[Earliest(holders)].aws, key).dict, sub)

\* the fields of a dict, whatever their order
Fields(d) == {d[i] : i \in 1..Len(d)}

\* the deployment object of the base document with, when it has no
\* terraformHints, those of the earliest later document that has them
WithAdoptedHints(docs, base) ==
    LET hinters == {j \in (base + 1)..Len(docs) :
                       HasKey(docs[j].deployment.fields, "terraformHints")}
        own     == Fields(docs[base].deployment.fields)
    IN  IF HasKey(docs[base].deployment.fields, "terraformHints") \/ hinters = {}
        THEN own
        ELSE own \cup {<<"terraformHints",
                         Get(docs[Earliest(hinters)].deployment.fields, "terraformHints")>>}

\* C15: the merged deployment is the deployment object of the first
\* document, also when that one is empty or absent, with the terraformHints
\* of the earliest later document that has them when the first has none;
\* no other field of a later document is in it.
C15_FirstDeploymentWins ==
    MergeReturned => Fields(mrg_out.merged.deployment) = WithAdoptedHints(mrg_in, 1)

\* C16: merge_metadata leaves every document it is given as it was: its aws
\* values, its deployment object, its services and its findings.
C16_InputsUnchanged ==
    (mrg_pc \in {"done", "raised"} /\ Len(mrg_in) >= 2) => mrg_after = mrg_in

RECURSIVE Externals(_)
Externals(docs) ==
    IF Len(docs) = 0 THEN <<>>
    ELSE Externals(SubSeq(docs, 1, Len(docs) - 1)) \o docs[Len(docs)].external

\* C19: the merged external list is the external lists of the documents
\* one after the other, in document order, each in its own order, with an
\* element kept as many times as it occurs.
C19_ExternalConcatenated ==
    MergeReturned => mrg_out.merged.external = Externals(mrg_in)

C19_Witness ==
    /\ MergeReturned
    /\ Len(mrg_in) = 3
    /\ Len(mrg_in[2].external) = 0
    /\ mrg_out.merged.external = <<"stripe", "auth0", "stripe", "auth0">>

(***************************************************************************)
(* Claims about the priority sort                                          *)
(***************************************************************************)
\* the infrastructure-as-code suffixes among SIGNAL_SUFFIXES
IAC_SUFFIXES == {".tf", ".tfvars", ".tf.json", ".tfvars.json"}

\* the tier of a candidate by the kind of file it is: 1 infrastructure as
\* code, 2 container or compose file, 3 build manifest, 4 application
\* config, 5 README, 6 anything else
FileTier(p) ==
    LET b == Lower(basename(p))
    IN  IF \E suf \in IAC_SUFFIXES : EndsWith(b, suf) THEN 1
        ELSE IF StartsWith(b, "dockerfile") \/ Contains(b, "compose") THEN 2
        ELSE IF b \in {"package.json", "pom.xml", "build.gradle", "build.gradle.kts"} THEN 3
        ELSE IF StartsWith(b, "application")
                  /\ (EndsWith(b, ".yml") \/ EndsWith(b, ".yaml") \/ EndsWith(b, ".properties"))
             THEN 4
        ELSE IF StartsWith(b, "readme") THEN 5
        ELSE 6

\* C17: the ranked list has every candidate of a higher tier ahead of every
\* candidate of a lower tier, the tiers being infrastructure as code,
\* container and compose files, build manifests, application config,
\* README files and the rest, and every file with an infrastructure-as-code
\* suffix being of the first tier.
C17_HigherTierFirst ==
    rank_pc = "done" =>
        \A i, j \in 1..Len(rank_out) :
            FileTier(rank_out[i]) < FileTier(rank_out[j]) => i < j

(***************************************************************************)
(* Claims about failures                                                   *)
(***************************************************************************)
\* C20: a failed storage or inference call is answered with a response of
\* status 500 or 502 (in the analysis handler 502 for a provider client
\* error and 500 otherwise); with the debug flag off, the body carries no
\* text of the exception, at most the provider's error code.
C20_FailureSurfacedWithoutText ==
    fail_pc = "done" =>
        /\ fail_response.kind = "response"
        /\ fail_response.statusCode \in {500, 502}
        /\ fail_name = "code-analysis" =>
               fail_response.statusCode = IF fail_exc.class = "ClientError" THEN 502 ELSE 500
        /\ ~is_debug_mode(fail_env, fail_qs) =>
               \/ ~fail_response.error.present
               \/ fail_response.error.message = fail_exc.code

(***************************************************************************)
(* Claims about the file classifiers                                       *)
(***************************************************************************)
\* C21: the signal files and the root markers differ in both directions:
\* some basename is a signal file and no root marker, and some root marker
\* is no signal file.
C21_DifferInBothDirections ==
    sig_pc = "done" =>
        /\ \E b \in SignalNames : is_signal_path(b) /\ b \notin PROJECT_ROOT_MARKERS
        /\ \E b \in PROJECT_ROOT_MARKERS : ~is_signal_path(b)

\* C21, amended: every root marker is a signal file, in whatever directory
\* it lies, and some signal file is no root marker.
C21_MarkersAreSignals ==
    sig_pc = "done" =>
        /\ sig_marker => sig_signal
        /\ \A b \in PROJECT_ROOT_MARKERS : is_signal_path(b)
        /\ \E b \in SignalNames : is_signal_path(b) /\ b \notin PROJECT_ROOT_MARKERS

C21_Witness ==
    /\ sig_pc = "done"
    /\ sig_path = "app/main.tf"
    /\ sig_marker
    /\ sig_signal

(***************************************************************************)
(* Claims about the allocation and the sequence of the analysis            *)
(***************************************************************************)
\* the names of the files accepted for the project at position i, in order
AcceptedOf(i) ==
    LET own == SelectSeq(accepted, LAMBDA a : a.root = project_roots[i].root)
    IN  [k \in 1..Len(own) |-> own[k].name]

\* the number of files accepted for the projects before position i
AcceptedBefore(i) ==
    Cardinality({k \in 1..Len(accepted) :
                    \E j \in 1..(i - 1) : accepted[k].root = project_roots[j].root})

\* C22: a project accepts at most min(MAX_FILES_PER_PROJECT, MAX_TOTAL_FILES
\* minus the files accepted before it) files, and they are the first of its
\* ranked candidates; a project that comes when MAX_TOTAL_FILES files are
\* accepted is not processed: none of its files is read or accepted and no
\* inference call is made for it.
C22_FileQuota ==
    /\ \A i \in 1..Len(project_roots) :
           /\ Len(AcceptedOf(i)) <=
                  Min(MAX_FILES_PER_PROJECT, MAX_TOTAL_FILES - AcceptedBefore(i))
           /\ AcceptedBefore(i) >= MAX_TOTAL_FILES =>
                  /\ Len(AcceptedOf(i)) = 0
                  /\ i > Len(outcomes)
                  /\ ~(pc \in {"file", "analyze"} /\ proj_idx = i)
                  /\ \A c \in 1..Len(calls) :
                         calls[c].op = "converse" => calls[c].key # project_roots[i].root
    /\ pc \in {"file", "analyze"} =>
           /\ Len(AcceptedOf(proj_idx)) <= Len(candidates)
           /\ AcceptedOf(proj_idx) = SubSeq(candidates, 1, Len(AcceptedOf(proj_idx)))
    /\ Len(accepted) = total_files_collected
    /\ total_files_collected <= MAX_TOTAL_FILES

\* the quota that remains is less than the candidates of the second
\* project and than the cap of a project
C22_Witness ==
    /\ pc = "done"
    /\ response.statusCode = 200
    /\ Len(project_roots) = 2
    /\ Len(AcceptedOf(1)) = MAX_FILES_PER_PROJECT
    /\ project_roots[2].files = {"y/main.tf", "y/b.yml"}
    /\ AcceptedOf(2) = <<"y/main.tf">>
    /\ total_files_collected = MAX_TOTAL_FILES


(***************************************************************************)
(* Claims about the line frame of redact_secrets                           *)
(***************************************************************************)
\* text.split("\n"): the pieces between the newline characters
RECURSIVE SplitNewline(_)
SplitNewline(t) ==
    LET i == FirstIn(t, 1, {"\n"})
    IN  IF i > Len(t) THEN <<t>>
        ELSE <<SubSeq(t, 1, i - 1)>> \o SplitNewline(SubSeq(t, i + 1, Len(t)))

\* the line sequences that "\n".join turns into the text out: its pieces, and
\* the empty sequence as well when out is empty
JoinedLines(out) ==
    {SplitNewline(out)} \cup (IF Len(out) = 0 THEN {<<>>} ELSE {})

\* C24: the result of redact_secrets is the newline-joined sequence of as many
\* lines as the input text has, in the same order, and the i-th of them is
\* the i-th input line whenever that input line holds no sensitive key.
C24_PlainLinesUnchanged ==
    red_pc = "done" =>
        LET lines == splitlines(red_text)
        IN  \E outs \in JoinedLines(red_out) :
                /\ Len(outs) = Len(lines)
                /\ \A i \in 1..Len(lines) :
                       ~HasSensitiveKey(lines[i]) => outs[i] = lines[i]

C24_Witness ==
    /\ red_pc = "done"
    /\ red_text = Chars("a\ntoken=")
    /\ red_out = Chars("a\ntoken=***REDACTED***")

(***************************************************************************)
(* Claims about the failures of the merge step                             *)
(***************************************************************************)
\* C27: merge_metadata returns a result and raises no error for every list
\* of project documents, whatever the types of the values the documents give
\* for the same key of infrastructure.aws.
C27_MergeNeverRaises ==
    mrg_pc # "raised" /\ (mrg_pc = "done" => mrg_out.kind # "raised")

(***************************************************************************)
(* Claims about the sequence of the projects                               *)
(***************************************************************************)
\* the roots of the inference calls made so far, in the order of the calls
ConverseRoots ==
    LET cs == SelectSeq(calls, LAMBDA c : c.op = "converse")
    IN  [k \in 1..Len(cs) |-> cs[k].key]

\* the position of a root in the root mapping
RootIndex(r) == CHOOSE i \in 1..Len(project_roots) : project_roots[i].root = r

\* this step makes an inference call
ConverseStep == Len(calls') = Len(calls) + 1 /\ calls'[Len(calls')].op = "converse"

\* C28: the projects are analyzed one after the other in the order of the
\* root mapping: the inference calls are for distinct projects in that
\* order, a call is made only when the allocation of its project is over and
\* has accepted at least one file, its outcome is recorded in the step of the
\* call, and files are only allocated to a project that has no call and
\* no outcome yet while every earlier project has its outcome.
C28_OneProjectAtATime ==
    /\ [](/\ \A k \in 1..Len(ConverseRoots) :
                /\ \E i \in 1..Len(project_roots) : project_roots[i].root = ConverseRoots[k]
                /\ \A j \in 1..(k - 1) : RootIndex(ConverseRoots[j]) < RootIndex(ConverseRoots[k])
                /\ \E a \in 1..Len(accepted) : accepted[a].root = ConverseRoots[k]
                /\ \E o \in 1..Len(outcomes) : outcomes[o].root = ConverseRoots[k]
          /\ pc \in {"file", "analyze"} =>
                /\ Len(outcomes) = proj_idx - 1
                /\ \A o \in 1..Len(outcomes) : outcomes[o].root = project_roots[o].root
                /\ \A k \in 1..Len(ConverseRoots) : RootIndex(ConverseRoots[k]) < proj_idx)
    /\ [][/\ ConverseStep =>
                /\ pc = "analyze" /\ pc' = "project"
                /\ file_summaries # <<>>
                /\ calls'[Len(calls')].key = project_roots[proj_idx].root
                /\ accepted' = accepted
                /\ Len(outcomes') = Len(outcomes) + 1
                /\ outcomes'[Len(outcomes')].root = project_roots[proj_idx].root
                /\ proj_idx' = proj_idx + 1
          /\ accepted' # accepted =>
                /\ pc = "file"
                /\ accepted' = Append(accepted, accepted'[Len(accepted')])
                /\ accepted'[Len(accepted')].root = project_roots[proj_idx].root
                /\ calls' = calls]_vars

C28_Witness ==
    /\ pc = "file"
    /\ proj_idx = 3
    /\ ConverseRoots = <<project_roots[1].root>>
    /\ outcomes[1].result = "success"
    /\ outcomes[2].result = "no_files"

(***************************************************************************)
(* Claims about the stored metadata document                               *)
(***************************************************************************)
\* the put_object calls made so far
PutCalls == SelectSeq(calls, LAMBDA c : c.op = "put_object")

\* this step calls put_object
PutStep == Len(calls') = Len(calls) + 1 /\ calls'[Len(calls')].op = "put_object"

\* C29: put_object is called at most once, with the key
\* results/{request_id}/metadata.json, in the step that follows the loop over
\* the projects; that step calls it if and only if at least one project was
\* analyzed successfully; and a 200 response that reports a project analyzed
\* comes after the call.
C29_DocumentWrittenOnce ==
    /\ [](/\ Len(PutCalls) <= 1
          /\ \A k \in 1..Len(PutCalls) :
                 PutCalls[k].key = "results/" \o event.request_id \o "/metadata.json"
          /\ (pc = "done" /\ response.statusCode = 200 /\ response.projectsAnalyzed >= 1)
                 => Len(PutCalls) = 1)
    /\ [][/\ PutStep => pc = "merge"
          /\ (pc = "merge" /\ pc' = "done") => (PutStep <=> metadata_list # <<>>)]_vars
====
